---- MODULE Spec2Model ----
(***************************************************************************)
(* A model of BaseEcosystemTools: the BaseSDK network client               *)
(* (src/src/BaseSDK.ts), the DeFiIntegrator intent builder and dispatcher  *)
(* (src/src/DeFiIntegrator.ts) and the address registry                    *)
(* (src/unnamed/part_000).                                                 *)
(*                                                                         *)
(* JavaScript strings are modelled as sequences of one-character strings,  *)
(* so that slice, padStart, parseInt, toString(16) and the address regular *)
(* expression are computed character by character as the code does.        *)
(***************************************************************************)
EXTENDS Integers, Sequences, FiniteSets, TLC

(***************************************************************************)
(* Bounds of the model.                                                    *)
(***************************************************************************)
\* Calls one behaviour makes before the model stops issuing new ones.
MaxCalls == 2
\* Encoder calls one encoder run makes.
MaxEncCalls == 3
\* Longest run of one repeated character the address strings are built from.
MaxBody == 41

(***************************************************************************)
(* Characters and the JavaScript string primitives the code uses.          *)
(***************************************************************************)
DecDigits == <<"0","1","2","3","4","5","6","7","8","9">>
HexDigitsLower == DecDigits \o <<"a","b","c","d","e","f">>
HexDigitsUpper == DecDigits \o <<"A","B","C","D","E","F">>

Range(f) == {f[i] : i \in DOMAIN f}

\* Every character that is a hexadecimal digit in either letter case.
HexChars == Range(HexDigitsLower) \cup Range(HexDigitsUpper)

\* StrWhiteSpaceChar of ECMAScript, as far as the inputs of the model use it.
WhiteSpace == {" "}

\* The value of digit character c in the given radix, or -1 when c is no digit of it.
DigitValue(c, radix) ==
    LET lo == {i \in 1..radix : HexDigitsLower[i] = c}
        up == {i \in 1..radix : HexDigitsUpper[i] = c}
    IN  IF lo # {} THEN (CHOOSE i \in lo : TRUE) - 1
        ELSE IF up # {} THEN (CHOOSE i \in up : TRUE) - 1
        ELSE -1

\* String.prototype.slice(2): the string without its first two characters.
slice2(s) == SubSeq(s, 3, Len(s))

\* String.prototype.padStart(n, c): s itself when it is n characters or longer,
\* never truncated; otherwise left-filled with c up to n characters.
padStart(s, n, c) ==
    IF Len(s) >= n THEN s ELSE [i \in 1..(n - Len(s)) |-> c] \o s

\* A JavaScript number as the model needs it: NaN, or an integer value.
NaN == [nan |-> TRUE, val |-> 0]
Num(v) == [nan |-> FALSE, val |-> v]

\* s without its leading white space (parseInt trims it before reading).
RECURSIVE TrimStart(_)
TrimStart(s) ==
    IF s # <<>> /\ Head(s) \in WhiteSpace THEN TrimStart(Tail(s)) ELSE s

\* The longest prefix of s made of digits of the radix.
RECURSIVE DigitPrefix(_, _)
DigitPrefix(s, radix) ==
    IF s # <<>> /\ DigitValue(Head(s), radix) >= 0
    THEN <<Head(s)>> \o DigitPrefix(Tail(s), radix)
    ELSE <<>>

\* The mathematical value of a digit string in the radix.
RECURSIVE DigitsValue(_, _)
DigitsValue(ds, radix) ==
    IF ds = <<>> THEN 0
    ELSE DigitsValue(SubSeq(ds, 1, Len(ds) - 1), radix) * radix
         + DigitValue(ds[Len(ds)], radix)

\* parseInt(s) with no radix argument: white space trimmed, an optional sign, a
\* 0x/0X prefix selecting radix 16, then the longest digit prefix; NaN when that
\* prefix is empty. Whatever follows the digits is ignored.
parseInt(s) ==
    LET t    == TrimStart(s)
        neg  == t # <<>> /\ Head(t) = "-"
        u    == IF t # <<>> /\ Head(t) \in {"-", "+"} THEN Tail(t) ELSE t
        hex  == Len(u) >= 2 /\ u[1] = "0" /\ u[2] \in {"x", "X"}
        body == IF hex THEN slice2(u) ELSE u
        rdx  == IF hex THEN 16 ELSE 10
        ds   == DigitPrefix(body, rdx)
    IN  IF ds = <<>> THEN NaN
        ELSE Num((IF neg THEN -1 ELSE 1) * DigitsValue(ds, rdx))

\* The digits of a natural number in the radix, lower case, no leading zeros.
RECURSIVE NatToDigits(_, _)
NatToDigits(n, radix) ==
    IF n < radix THEN <<HexDigitsLower[n + 1]>>
    ELSE NatToDigits(n \div radix, radix) \o <<HexDigitsLower[(n % radix) + 1]>>

\* Number.prototype.toString(radix) of NaN or an integer: "NaN", or the digits
\* with a leading "-" for a negative value.
numToString(x, radix) ==
    IF x.nan THEN <<"N","a","N">>
    ELSE IF x.val < 0 THEN <<"-">> \o NatToDigits(-x.val, radix)
    ELSE NatToDigits(x.val, radix)

\* BigInt.prototype.toString(): the decimal digits.
bigintToString(n) == numToString(Num(n), 10)

(***************************************************************************)
(* The regular expression of isValidBaseAddress, /^0x[a-fA-F0-9]{40}$/,    *)
(* as the list of its items, and the matcher that runs it.                 *)
(***************************************************************************)
\* Characters in code-point order, for the ranges of a character class. A
\* character outside the table compares below all of them and is in no range.
CodeOrder ==
    <<" ", "-">> \o DecDigits
    \o <<"A","B","C","D","E","F","G","X">>
    \o <<"a","b","c","d","e","f","g","x">>

Code(c) ==
    LET at == {i \in DOMAIN CodeOrder : CodeOrder[i] = c}
    IN  IF at = {} THEN 0 ELSE CHOOSE i \in at : TRUE

\* Whether c lies in one of the ranges <<lo, hi>> of a character class.
InClass(c, ranges) ==
    \E r \in Range(ranges) : Code(c) > 0 /\ Code(r[1]) <= Code(c) /\ Code(c) <= Code(r[2])

\* The items between ^ and $: the literal 0, the literal x, and the class
\* [a-fA-F0-9] repeated exactly 40 times.
AddressPattern ==
    << [ranges |-> << <<"0","0">> >>, times |-> 1],
       [ranges |-> << <<"x","x">> >>, times |-> 1],
       [ranges |-> << <<"a","f">>, <<"A","F">>, <<"0","9">> >>, times |-> 40] >>

\* Whether the items from the k-th on match s from position i up to its very end
\* (the $ of a pattern without the m flag matches only at the end of the input).
RECURSIVE MatchToEnd(_, _, _, _)
MatchToEnd(pattern, k, s, i) ==
    IF k > Len(pattern) THEN i = Len(s) + 1
    ELSE LET item == pattern[k]
             stop == i + item.times - 1
         IN  /\ stop <= Len(s)
             /\ \A j \in i..stop : InClass(s[j], item.ranges)
             /\ MatchToEnd(pattern, k + 1, s, stop + 1)

\* The pattern without its $: the items only have to match a prefix of s.
RECURSIVE MatchPrefix(_, _, _, _)
MatchPrefix(pattern, k, s, i) ==
    IF k > Len(pattern) THEN TRUE
    ELSE LET item == pattern[k]
             stop == i + item.times - 1
         IN  /\ stop <= Len(s)
             /\ \A j \in i..stop : InClass(s[j], item.ranges)
             /\ MatchPrefix(pattern, k + 1, s, stop + 1)

\* isValidBaseAddress with the pattern's closing $ left out.
isValidBaseAddressUnanchored(address) == MatchPrefix(AddressPattern, 1, address, 1)

\* BASE_UTILITIES.isValidBaseAddress(address): /^0x[a-fA-F0-9]{40}$/.test(address).
isValidBaseAddress(address) == MatchToEnd(AddressPattern, 1, address, 1)

(***************************************************************************)
(* The address registry and the other constant tables.                     *)
(***************************************************************************)
\* BASE_PROTOCOLS of BaseSDK.ts, in its order.
BASE_PROTOCOLS ==
    << [name |-> "Uniswap V3", type |-> "dex", address |->
        <<"0","x","2","6","2","6","6","6","4","c","2","6","0","3","3","3","6","E",
        "5","7","B","2","7","1","c","5","C","0","b","2","6","F","4","2","1","7","4",
        "1","e","4","8","1">>],
       [name |-> "Aerodrome", type |-> "dex", address |->
        <<"0","x","c","F","7","7","a","3","B","a","9","A","5","C","A","3","9","9",
        "B","7","c","9","7","c","7","4","d","5","4","e","5","b","1","B","e","b","8",
        "7","4","E","4","3">>],
       [name |-> "Compound V3", type |-> "lending", address |->
        <<"0","x","9","c","4","e","c","7","6","8","c","2","8","5","2","0","B","5",
        "0","8","6","0","e","a","7","a","1","5","b","d","7","2","1","3","a","9","f",
        "F","5","8","b","f">>],
       [name |-> "Base Bridge", type |-> "bridge", address |->
        <<"0","x","3","1","5","4","C","f","1","6","c","c","d","b","4","C","6","d",
        "9","2","2","6","2","9","6","6","4","1","7","4","b","9","0","4","d","8","0",
        "F","2","C","3","5">>] >>

\* PROTOCOLS of the configuration file, in its key order.
PROTOCOLS ==
    << [key |-> "UNISWAP_V3", name |-> "Uniswap V3", category |-> "dex", address |->
        <<"0","x","2","6","2","6","6","6","4","c","2","6","0","3","3","3","6","E",
        "5","7","B","2","7","1","c","5","C","0","b","2","6","F","4","2","1","7","4",
        "1","e","4","8","1">>],
       [key |-> "COMPOUND_V3", name |-> "Compound V3", category |-> "lending", address |->
        <<"0","x","9","c","4","e","c","7","6","8","c","2","8","5","2","0","B","5",
        "0","8","6","0","e","a","7","a","1","5","b","d","7","2","1","3","a","9","f",
        "F","5","8","b","f">>],
       [key |-> "AERODROME", name |-> "Aerodrome", category |-> "dex", address |->
        <<"0","x","9","4","0","1","8","1","a","9","4","A","3","7","A","2","A","5",
        "2","b","9","0","D","6","8","8","a","1","9","3","c","1","e","0","c","0","A",
        "e","4","6","A","1">>],
       [key |-> "MOONWELL", name |-> "Moonwell", category |-> "lending", address |->
        <<"0","x","6","2","8","f","f","6","9","3","4","2","6","5","8","3","D","9",
        "a","7","F","B","3","9","1","E","5","4","3","6","6","2","9","2","F","5","0",
        "9","D","4","5","7">>] >>

\* TOKENS.USDC and TOKENS.WETH of the configuration file.
USDC ==
    <<"0","x","8","3","3","5","8","9","f","C","D","6","e","D","b","6","E","0","8",
    "f","4","c","7","C","3","2","D","4","f","7","1","b","5","4","b","d","A","0","2",
    "9","1","3">>
WETH ==
    <<"0","x","4","2","0","0","0","0","0","0","0","0","0","0","0","0","0","0","0",
    "0","0","0","0","0","0","0","0","0","0","0","0","0","0","0","0","0","0","0","0",
    "0","0","6">>

\* The well-formed, unregistered address the tests pass as recipient and as pool.
TestAccount ==
    <<"0","x","1","2","3","4","5","6","7","8","9","0","1","2","3","4","5","6","7",
    "8","9","0","1","2","3","4","5","6","7","8","9","0","1","2","3","4","5","6","7",
    "8","9","0">>

\* The malformed address of the tests ('0x123'): too short.
ShortAddress == <<"0","x","1","2","3">>

\* A malformed address with a character that is no hex digit.
NonHexAddress == <<"0","x","g","1">>

\* A malformed address longer than a 64-digit word: '0x' and 65 digits.
LongAddress == <<"0","x">> \o [i \in 1..65 |-> "a"]

\* The createBaseSDK configuration.
BaseMainnetConfig ==
    [rpcUrl |-> "https://mainnet.base.org", chainId |-> 8453,
     explorerUrl |-> "https://basescan.org",
     multicallAddress |-> "0xcA11bde05977b3631167028862bE2a173976CA11"]

(***************************************************************************)
(* State.                                                                  *)
(***************************************************************************)
VARIABLES
    sdk,            \* the BaseSDK object: config, provider handle, signer
    integ,          \* the DeFiIntegrator object: its three router addresses
    keyGiven,       \* the privateKey argument the SDK was constructed with
    calls,          \* operations issued so far
    providerCalls,  \* read calls made on the provider
    sendCalls,      \* invocations of sdk.sendTransaction
    txSubmitted,    \* submissions handed to the network through the signer
    last,           \* the latest operation: its name, arguments and outcome
    ref,            \* encoder runs: the first encoder call and its payload
    cur,            \* encoder runs: the latest encoder call and its payload
    encCalls,       \* encoder runs: encoder calls made so far
    clock,          \* encoder runs: the time (seconds) the runtime's clock shows
    addr,           \* address runs: the string under test
    verdict,        \* address runs: what isValidBaseAddress answered for addr
    query,          \* registry runs: the lookup and its argument
    found,          \* registry runs: what the lookup returned
    given,          \* analytics runs: the function and its argument
    computed,       \* analytics runs: what the function returned
    pending         \* concurrent runs: the operations issued, by slot

vars == <<sdk, integ, keyGiven, calls, providerCalls, sendCalls, txSubmitted, last,
          ref, cur, encCalls, clock, addr, verdict, query, found, given, computed, pending>>
clientVars == <<sdk, integ, keyGiven, calls, providerCalls, sendCalls, txSubmitted, last>>
encVars == <<ref, cur, encCalls, clock>>
addrVars == <<addr, verdict>>
regVars == <<query, found>>
anaVars == <<given, computed>>
concVars == <<pending>>

\* The variables of the registry, analytics and concurrent runs where they are
\* not in use.
NotAsked == [asked |-> FALSE]
RegIdle == query = NotAsked /\ found = NotAsked
AnaIdle == given = NotAsked /\ computed = NotAsked
ConcIdle == pending = <<>>

(***************************************************************************)
(* Outcomes of an operation: a returned value or a thrown error.           *)
(***************************************************************************)
NoValue == [none |-> TRUE]
Throw(msg) == [threw |-> TRUE, error |-> msg, ret |-> NoValue]
Return(v) == [threw |-> FALSE, error |-> "", ret |-> v]

\* The JavaScript value null.
Null == [null |-> TRUE]

\* No submission reached the network, so the network answered nothing.
NoAnswer == [kind |-> "none", hash |-> "", blockNumber |-> 0, gasUsed |-> 0]

\* An outcome together with what the operation did on the way: the triples a
\* sendTransaction of the SDK received, the submissions that reached the signer,
\* the read calls it made on the provider, what the network answered to the
\* submission, and (tried) the argument triples of the sendTransaction calls the
\* operation evaluated, whether or not the call could be made.
Effect(outcome, sent, submitted, reads, answer) ==
    [threw |-> outcome.threw, error |-> outcome.error, ret |-> outcome.ret,
     sent |-> sent, submitted |-> submitted, reads |-> reads, answer |-> answer,
     tried |-> <<>>]

(***************************************************************************)
(* BaseSDK (src/src/BaseSDK.ts).                                           *)
(***************************************************************************)
Undefined == "undefined"

\* JavaScript truthiness of an optional string: undefined and '' are falsy.
Truthy(s) == s # Undefined /\ s # ""

\* The private key of the test suite, '0x' + '1'.repeat(64), kept opaque.
TestPrivateKey == "0x1111111111111111111111111111111111111111111111111111111111111111"

PrivateKeys == {Undefined, "", TestPrivateKey}

\* constructor(config, privateKey): the signer is a wallet for the key when a key
\* was given, and is left undefined otherwise.
NewBaseSDK(config, privateKey) ==
    [config |-> config,
     provider |-> config.rpcUrl,
     signer |-> IF Truthy(privateKey) THEN privateKey ELSE Undefined]

HasSigner == sdk.signer # Undefined

SignerRequired == "Signer required for transactions"
NetworkError == "Network error"

\* The bigint 0n, by its decimal digits.
ZeroBigInt == <<"0">>

\* What the provider can answer to a read: a failure of the call, or a value. A
\* gas price is a bigint, given by its decimal digits; 20000000000 is the gas
\* price and 12345 the block number of the test suite's provider.
ReadAnswers ==
    {[fails |-> TRUE, blockNumber |-> 0, gasPriceNull |-> TRUE, gasPrice |-> ZeroBigInt],
     [fails |-> FALSE, blockNumber |-> 12345, gasPriceNull |-> TRUE,
      gasPrice |-> ZeroBigInt],
     [fails |-> FALSE, blockNumber |-> 12345, gasPriceNull |-> FALSE,
      gasPrice |-> ZeroBigInt],
     [fails |-> FALSE, blockNumber |-> 12345, gasPriceNull |-> FALSE,
      gasPrice |-> <<"2","0","0","0","0","0","0","0","0","0","0">>],
     [fails |-> FALSE, blockNumber |-> 12346, gasPriceNull |-> FALSE,
      gasPrice |-> <<"1">>]}

\* getBlockNumber(): the provider's answer, or its error.
getBlockNumber(env) ==
    Effect(IF env.fails THEN Throw(NetworkError) ELSE Return([value |-> env.blockNumber]),
           <<>>, 0, 1, NoAnswer)

\* getGasPrice(): fee.gasPrice || 0n, so a missing (or zero) gas price reads as 0n.
getGasPrice(env) ==
    Effect(IF env.fails THEN Throw(NetworkError)
           ELSE Return([value |-> IF env.gasPriceNull \/ env.gasPrice = ZeroBigInt
                                  THEN ZeroBigInt ELSE env.gasPrice]),
           <<>>, 0, 1, NoAnswer)

\* s without its trailing zeros, down to one character at least.
RECURSIVE StripTrailingZeros(_)
StripTrailingZeros(s) ==
    IF Len(s) > 1 /\ s[Len(s)] = "0"
    THEN StripTrailingZeros(SubSeq(s, 1, Len(s) - 1)) ELSE s

\* ethers.formatEther(wei) of a non-negative bigint, given by its decimal digits:
\* the digits before the last 18, a point, and the last 18 digits without their
\* trailing zeros ('1.0' for 10^18, '0.0' for 0).
formatEther(wei) ==
    LET padded == padStart(wei, 19, "0")
        split  == Len(padded) - 18
    IN  SubSeq(padded, 1, split) \o <<".">>
        \o StripTrailingZeros(SubSeq(padded, split + 1, Len(padded)))

\* What the provider can answer to getBalance: a failure of the call, or a
\* balance in wei.
BalanceAnswers ==
    {[fails |-> TRUE, balance |-> <<"0">>],
     [fails |-> FALSE, balance |-> <<"0">>],
     [fails |-> FALSE, balance |-> <<"1","0","0","0","0","0","0","0","0","0","0","0","0","0","0","0","0","0","0">>],
     [fails |-> FALSE, balance |-> <<"1","5","0","0","0","0","0","0","0","0","0","0","0","0","0","0","0","0","1">>]}

\* getBalance(address): the provider's balance formatted in ether, or its error.
getBalance(address, env) ==
    Effect(IF env.fails THEN Throw(NetworkError)
           ELSE Return([value |-> formatEther(env.balance)]),
           <<>>, 0, 1, NoAnswer)

\* What the token contract can answer to balanceOf: a failure of the call, or a
\* uint256.
TokenBalanceAnswers ==
    {[fails |-> TRUE, balance |-> 0],
     [fails |-> FALSE, balance |-> 0],
     [fails |-> FALSE, balance |-> 1000000]}

\* getTokenBalance(tokenAddress, userAddress): a contract handle on the provider,
\* one balanceOf call, and the decimal string of the bigint it answers.
getTokenBalance(tokenAddress, userAddress, env) ==
    Effect(IF env.fails THEN Throw(NetworkError)
           ELSE Return([value |-> bigintToString(env.balance)]),
           <<>>, 0, 1, NoAnswer)

\* What the token contract can answer to symbol(), name() and decimals(): a
\* failure of one of the calls, or the three values.
TokenInfoAnswers ==
    {[fails |-> TRUE, symbol |-> "", name |-> "", decimals |-> 0],
     [fails |-> FALSE, symbol |-> "USDC", name |-> "USD Coin", decimals |-> 6],
     [fails |-> FALSE, symbol |-> "WETH", name |-> "Wrapped Ether", decimals |-> 18]}

\* getTokenInfo(tokenAddress): three view calls started together under
\* Promise.all; the record of the address and the three answers, or the error of
\* the call that failed.
getTokenInfo(tokenAddress, env) ==
    Effect(IF env.fails THEN Throw(NetworkError)
           ELSE Return([address |-> tokenAddress, symbol |-> env.symbol,
                        name |-> env.name, decimals |-> env.decimals]),
           <<>>, 0, 3, NoAnswer)

\* What the provider can answer to estimateGas: a failure, or a bigint given by
\* its decimal digits.
GasEstimateAnswers ==
    {[fails |-> TRUE, gas |-> ZeroBigInt],
     [fails |-> FALSE, gas |-> <<"2","1","0","0","0">>],
     [fails |-> FALSE, gas |-> <<"1","5","0","0","0","0">>]}

\* getGasEstimate(to, data): the provider's estimate for {to, data}, or its error.
getGasEstimate(to, data, env) ==
    Effect(IF env.fails THEN Throw(NetworkError) ELSE Return([value |-> env.gas]),
           <<>>, 0, 1, NoAnswer)

\* What the provider can answer to waitForTransaction: a failure, null, or a
\* receipt.
ReceiptAnswers ==
    {[fails |-> TRUE, receipt |-> Null],
     [fails |-> FALSE, receipt |-> Null],
     [fails |-> FALSE,
      receipt |-> [hash |-> "0x1234567890abcdef", blockNumber |-> 12345, status |-> 1]]}

\* waitForTransaction(txHash): the provider's receipt or null, or its error.
waitForTransaction(txHash, env) ==
    Effect(IF env.fails THEN Throw(NetworkError) ELSE Return([value |-> env.receipt]),
           <<>>, 0, 1, NoAnswer)

\* The reads of the SDK: the async methods that ask the provider and await its
\* answer.
ReadOps ==
    {"getBlockNumber", "getGasPrice", "getBalance", "getTokenBalance", "getTokenInfo",
     "getGasEstimate", "waitForTransaction"}

\* The calls a read makes on the provider before it suspends.
ProviderCallsOf(op) == IF op = "getTokenInfo" THEN 3 ELSE 1

\* What the provider can answer to the calls of a read.
AnswersOf(op) ==
    CASE op \in {"getBlockNumber", "getGasPrice"} -> ReadAnswers
      [] op = "getBalance" -> BalanceAnswers
      [] op = "getTokenBalance" -> TokenBalanceAnswers
      [] op = "getTokenInfo" -> TokenInfoAnswers
      [] op = "getGasEstimate" -> GasEstimateAnswers
      [] op = "waitForTransaction" -> ReceiptAnswers

\* A read with its arguments a, from its call to its end, the provider answering
\* env.
RunRead(op, a, env) ==
    CASE op = "getBlockNumber" -> getBlockNumber(env)
      [] op = "getGasPrice" -> getGasPrice(env)
      [] op = "getBalance" -> getBalance(a.address, env)
      [] op = "getTokenBalance" -> getTokenBalance(a.tokenAddress, a.userAddress, env)
      [] op = "getTokenInfo" -> getTokenInfo(a.tokenAddress, env)
      [] op = "getGasEstimate" -> getGasEstimate(a.to, a.data, env)
      [] op = "waitForTransaction" -> waitForTransaction(a.txHash, env)

\* swapTokens without its signer check.
swapTokensUnguarded(params) ==
    Effect(Return([txHash |-> "0x...", amountOut |-> "0", gasUsed |-> 150000]),
           <<>>, 0, 0, NoAnswer)

\* swapTokens(params): throws without a signer; otherwise builds a contract handle
\* (no network traffic) and returns the placeholder result.
swapTokens(params) ==
    Effect(IF ~HasSigner THEN Throw(SignerRequired)
           ELSE Return([txHash |-> "0x...", amountOut |-> "0", gasUsed |-> 150000]),
           <<>>, 0, 0, NoAnswer)

\* addLiquidity(params) of BaseSDK.
sdkAddLiquidity(params) ==
    Effect(IF ~HasSigner THEN Throw(SignerRequired)
           ELSE Return([txHash |-> "0x...", lpTokens |-> "0", gasUsed |-> 200000]),
           <<>>, 0, 0, NoAnswer)

\* bridgeToBase(params).
bridgeToBase(params) ==
    Effect(IF ~HasSigner THEN Throw(SignerRequired)
           ELSE Return([txHash |-> "0x...", bridgeId |-> "0x...", estimatedTime |-> 600]),
           <<>>, 0, 0, NoAnswer)

\* The error of calling a member that the object does not have.
SdkSendNotAFunction == "TypeError: sdk.sendTransaction is not a function"
ThisSdkSendNotAFunction == "TypeError: this.sdk.sendTransaction is not a function"

\* sdk.sendTransaction(to, value, data): class BaseSDK declares no such member
\* (its methods are getBlockNumber, getGasPrice, getBalance, getTokenBalance,
\* getTokenInfo, swapTokens, addLiquidity, bridgeToBase, getProtocolTVL,
\* getTopTokens, getGasEstimate, formatAddress, isValidAddress and
\* waitForTransaction), so the property is undefined and calling it throws a
\* TypeError, with or without a signer. Nothing reaches the signer, the provider
\* or the network.
sendTransaction(to, value, data) ==
    Effect(Throw(SdkSendNotAFunction), <<>>, 0, 0, NoAnswer)

(***************************************************************************)
(* DeFiIntegrator (src/src/DeFiIntegrator.ts).                             *)
(***************************************************************************)
\* constructor(sdk): the three hardcoded router addresses.
NewDeFiIntegrator ==
    [uniswapV3Router |->
        <<"0","x","2","6","2","6","6","6","4","c","2","6","0","3","3","3","6","E",
        "5","7","B","2","7","1","c","5","C","0","b","2","6","F","4","2","1","7","4",
        "1","e","4","8","1">>,
     aerodromeRouter |->
        <<"0","x","c","F","7","7","a","3","B","a","9","A","5","C","A","3","9","9",
        "B","7","c","9","7","c","7","4","d","5","4","e","5","b","1","B","e","b","8",
        "7","4","E","4","3">>,
     compoundComet |->
        <<"0","x","9","c","4","e","c","7","6","8","c","2","8","5","2","0","B","5",
        "0","8","6","0","e","a","7","a","1","5","b","d","7","2","1","3","a","9","f",
        "F","5","8","b","f">>]

\* Hex digits of one payload word.
WordLen == 64

\* The function selectors, each '0x' and eight hex digits.
SwapSelector == <<"0","x","4","1","4","b","f","3","8","9">>
AerodromeSelector == <<"0","x","3","8","e","d","1","7","3","9">>
MintSelector == <<"0","x","2","1","9","f","5","d","1","7">>
DecreaseSelector == <<"0","x","0","c","4","9","c","c","b","e">>
SupplySelector == <<"0","x","a","0","7","1","2","d","6","8">>
WithdrawSelector == <<"0","x","c","5","e","b","e","a","e","c">>
StakeSelector == <<"0","x","a","6","9","4","f","c","3","a">>
GetRewardSelector == <<"0","x","3","d","1","8","b","9","1","2">>

\* encodeSwapData with a deadline word appended, twenty minutes from the time the
\* clock shows at the call.
encodeSwapDataClockDeadline(params) ==
    SwapSelector
    \o padStart(slice2(params.tokenIn), WordLen, "0")
    \o padStart(slice2(params.tokenOut), WordLen, "0")
    \o padStart(numToString(parseInt(params.amountIn), 16), WordLen, "0")
    \o padStart(numToString(Num(clock + 1200), 16), WordLen, "0")

\* encodeSwapData(params): selector, tokenIn, tokenOut, amountIn.
encodeSwapData(params) ==
    SwapSelector
    \o padStart(slice2(params.tokenIn), WordLen, "0")
    \o padStart(slice2(params.tokenOut), WordLen, "0")
    \o padStart(numToString(parseInt(params.amountIn), 16), WordLen, "0")

\* encodeAerodromeSwap(amountIn, amountOutMin, routes, to, deadline).
encodeAerodromeSwap(amountIn, amountOutMin, routes, to, deadline) ==
    AerodromeSelector
    \o padStart(numToString(parseInt(amountIn), 16), WordLen, "0")
    \o padStart(numToString(parseInt(amountOutMin), 16), WordLen, "0")

\* encodeLiquidityData(params): selector, token0, token1, fee.
encodeLiquidityData(params) ==
    MintSelector
    \o padStart(slice2(params.token0), WordLen, "0")
    \o padStart(slice2(params.token1), WordLen, "0")
    \o padStart(numToString(Num(params.fee), 16), WordLen, "0")

\* encodeRemoveLiquidityData(tokenId, liquidity, amount0Min, amount1Min, deadline).
encodeRemoveLiquidityData(tokenId, liquidity, amount0Min, amount1Min, deadline) ==
    DecreaseSelector
    \o padStart(numToString(Num(tokenId), 16), WordLen, "0")
    \o padStart(numToString(parseInt(liquidity), 16), WordLen, "0")

\* encodeSupplyData(asset, amount).
encodeSupplyData(asset, amount) ==
    SupplySelector
    \o padStart(slice2(asset), WordLen, "0")
    \o padStart(numToString(parseInt(amount), 16), WordLen, "0")

\* encodeBorrowData(asset, amount).
encodeBorrowData(asset, amount) ==
    WithdrawSelector
    \o padStart(slice2(asset), WordLen, "0")
    \o padStart(numToString(parseInt(amount), 16), WordLen, "0")

\* encodeStakeData with the pool encoded as a first word.
encodeStakeDataWithPool(pool, amount) ==
    StakeSelector \o padStart(slice2(pool), WordLen, "0")
    \o padStart(numToString(parseInt(amount), 16), WordLen, "0")

\* encodeStakeData(pool, amount): the pool is not encoded.
encodeStakeData(pool, amount) ==
    StakeSelector \o padStart(numToString(parseInt(amount), 16), WordLen, "0")

\* encodeClaimData(): the bare selector.
encodeClaimData == GetRewardSelector

\* `const result = await this.sdk.sendTransaction(to, value, data); return
\* result.hash;`: the three arguments are evaluated, the call of the missing
\* member throws, and the operation rejects with that TypeError; `return
\* result.hash` is never reached.
Dispatch(to, value, data) ==
    [Effect(Throw(ThisSdkSendNotAFunction), <<>>, 0, 0, NoAnswer)
     EXCEPT !.tried = <<[to |-> to, value |-> value, data |-> data]>>]

swapExactInputSingle(params) ==
    Dispatch(integ.uniswapV3Router, "0", encodeSwapData(params))

swapOnAerodrome(amountIn, amountOutMin, routes, to, deadline) ==
    Dispatch(integ.aerodromeRouter, "0",
             encodeAerodromeSwap(amountIn, amountOutMin, routes, to, deadline))

addLiquidity(params) ==
    Dispatch(integ.uniswapV3Router, "0", encodeLiquidityData(params))

removeLiquidity(tokenId, liquidity, amount0Min, amount1Min, deadline) ==
    Dispatch(integ.uniswapV3Router, "0",
             encodeRemoveLiquidityData(tokenId, liquidity, amount0Min, amount1Min,
                                       deadline))

supplyToCompound(asset, amount) ==
    Dispatch(integ.compoundComet, "0", encodeSupplyData(asset, amount))

borrowFromCompound(asset, amount) ==
    Dispatch(integ.compoundComet, "0", encodeBorrowData(asset, amount))

stakeLPTokens(pool, amount) ==
    Dispatch(pool, "0", encodeStakeData(pool, amount))

claimRewards(pool) ==
    Dispatch(pool, "0", encodeClaimData)

\* The hex digits of a fraction that Math.random() draws.
RandomDigits == 13

\* A digit of a drawn fraction is kept by what the draw can put there: any hex
\* digit, or any hex digit but 0.
AnyHexDigit == "[0-9a-f]"
AnyNonZeroHexDigit == "[1-9a-f]"

\* Math.random() draws a multiple of 2^-52 in [0, 1), one of 2^52 fractions of 13
\* hex digits. A draw is given by the shape of its digits: n digits of which the
\* last is not 0, then zeros; zero itself has no such digit. Every fraction that
\* can be drawn has exactly one of these shapes.
RandomFractions ==
    {[i \in 1..RandomDigits |-> IF i < n THEN AnyHexDigit
                                ELSE IF i = n THEN AnyNonZeroHexDigit
                                ELSE "0"] : n \in 0..RandomDigits}

\* Math.random().toString(16).substr(2, 40): '0' for zero and otherwise '0.' and
\* the hex digits of the fraction without trailing zeros; then the characters
\* after the first two, 40 at most. Zero gives the empty string, any other draw
\* its 1 to 13 digits, the last of them not 0.
RandomHexOf(fraction) ==
    LET text == IF \A i \in DOMAIN fraction : fraction[i] = "0" THEN <<"0">>
                ELSE <<"0", ".">> \o StripTrailingZeros(fraction)
        rest == SubSeq(text, 3, Len(text))
    IN  SubSeq(rest, 1, IF Len(rest) < 40 THEN Len(rest) ELSE 40)

RandomHex == {RandomHexOf(f) : f \in RandomFractions}

\* getPoolInfo with the two tokens exchanged.
getPoolInfoSwapped(token0, token1, fee, rnd) ==
    Effect(Return([address |-> <<"0","x">> \o rnd,
                   token0 |-> token1,
                   token1 |-> token0,
                   fee |-> fee,
                   liquidity |-> "1000000000000000000",
                   sqrtPriceX96 |-> "79228162514264337593543950336"]),
           <<>>, 0, 0, NoAnswer)

\* getPoolInfo(token0, token1, fee): the mock record, its address drawn at random.
getPoolInfo(token0, token1, fee, rnd) ==
    Effect(Return([address |-> <<"0","x">> \o rnd,
                   token0 |-> token0,
                   token1 |-> token1,
                   fee |-> fee,
                   liquidity |-> "1000000000000000000",
                   sqrtPriceX96 |-> "79228162514264337593543950336"]),
           <<>>, 0, 0, NoAnswer)

(***************************************************************************)
(* The inputs the operations are called with.                              *)
(***************************************************************************)
\* The clock of the run (seconds), for telling a past deadline from a future one.
Now == 1000

Amounts == {<<"1","0","0","0">>, <<"-","5">>, <<"a","b","c">>}
MinAmounts == {<<"9","9","0">>, <<"a","b","c">>}
TokenAddrs == {USDC, ShortAddress}
OutTokens == {WETH, NonHexAddress}
Recipients == {TestAccount, ShortAddress}
Assets == {USDC, LongAddress, ShortAddress}
Pools == {TestAccount, PROTOCOLS[1].address, ShortAddress}
Deadlines == {Now + 3600, Now - 1}
Fees == {3000, -1}
TokenIds == {12345, -1}
RouteLists ==
    {<<>>, <<[from |-> USDC, to |-> WETH, stable |-> FALSE,
              factory |-> "0x420DD381b31aEf6683db6B902084cB0FFECe40Da"]>>}

SwapParamsSet ==
    [tokenIn : TokenAddrs, tokenOut : {WETH}, amountIn : Amounts,
     amountOutMinimum : MinAmounts, recipient : Recipients, deadline : Deadlines]

LiquidityParamsSet ==
    [token0 : TokenAddrs, token1 : OutTokens, fee : Fees,
     tickLower : {-887220}, tickUpper : {887220},
     amount0Desired : {<<"1","0","0","0">>},
     amount1Desired : {<<"1","0","0","0">>},
     amount0Min : {<<"9","5","0">>}, amount1Min : {<<"9","5","0">>},
     recipient : {TestAccount}, deadline : Deadlines]

SdkSwapParamsSet ==
    [protocol : {"uniswap-v3", "unsupported"}, tokenIn : {USDC}, tokenOut : {WETH},
     amountIn : {<<"1","0","0","0">>, <<"a","b","c">>}, slippage : {"0.5"}]

SdkLiquidityParamsSet ==
    [token0 : {USDC}, token1 : {WETH}, amount0 : Amounts,
     amount1 : {<<"1","0","0","0">>}, fee : {3000}]

BridgeParamsSet == [amount : Amounts, token : {USDC, ShortAddress}, fromChain : {1}]

(***************************************************************************)
(* The client: construction and one action per operation.                  *)
(***************************************************************************)
NoCall == [op |-> "none", args |-> NoValue, payload |-> <<>>, seq |-> 0, at |-> 0]

Init ==
    /\ keyGiven \in PrivateKeys
    /\ sdk = NewBaseSDK(BaseMainnetConfig, keyGiven)
    /\ integ = NewDeFiIntegrator
    /\ calls = 0
    /\ providerCalls = 0
    /\ sendCalls = 0
    /\ txSubmitted = 0
    /\ last = [op |-> "none", args |-> NoValue, threw |-> FALSE, error |-> "",
               ret |-> NoValue, sent |-> <<>>, answer |-> NoAnswer,
               tried |-> <<>>]
    /\ ref = NoCall
    /\ cur = NoCall
    /\ encCalls = 0
    /\ clock = Now
    /\ addr = <<>>
    /\ verdict = "unasked"
    /\ RegIdle /\ AnaIdle /\ ConcIdle

\* An operation that does not wait ran to its end: its outcome is what the caller
\* sees, and the
\* counters record the traffic it caused. No operation assigns a field of the SDK
\* or of the integrator.
Finish(op, args, eff) ==
    /\ calls + Len(pending) < MaxCalls
    /\ calls' = calls + 1
    /\ last' = [op |-> op, args |-> args, threw |-> eff.threw, error |-> eff.error,
                ret |-> eff.ret, sent |-> eff.sent, answer |-> eff.answer,
                tried |-> eff.tried]
    /\ sendCalls' = sendCalls + Len(eff.sent)
    /\ txSubmitted' = txSubmitted + eff.submitted
    /\ providerCalls' = providerCalls + eff.reads
    /\ UNCHANGED <<sdk, integ, keyGiven, encVars, addrVars, regVars, anaVars, concVars>>

\* A read is called: it makes its calls on the provider and suspends at its
\* await, its promise pending. Other operations can be called, and can finish,
\* before the provider answers.
CallRead(op, args) ==
    /\ calls + Len(pending) < MaxCalls
    /\ pending' = Append(pending, [op |-> op, args |-> args, stage |-> "awaiting"])
    /\ providerCalls' = providerCalls + ProviderCallsOf(op)
    /\ UNCHANGED <<sdk, integ, keyGiven, calls, sendCalls, txSubmitted, last,
                   encVars, addrVars, regVars, anaVars>>

GetBlockNumber == CallRead("getBlockNumber", NoValue)

GetGasPrice == CallRead("getGasPrice", NoValue)

GetBalance ==
    \E a \in {TestAccount, ShortAddress} : CallRead("getBalance", [address |-> a])

GetTokenBalance ==
    \E tk \in {USDC, ShortAddress} :
        CallRead("getTokenBalance", [tokenAddress |-> tk, userAddress |-> TestAccount])

GetTokenInfo ==
    \E tk \in {USDC, WETH} : CallRead("getTokenInfo", [tokenAddress |-> tk])

GetGasEstimate ==
    \E data \in {<<"0","x">>, <<"0","x","1","2","3","4">>} :
        CallRead("getGasEstimate", [to |-> TestAccount, data |-> data])

WaitForTransaction ==
    \E h \in {"0x1234567890abcdef", "0xfeedface"} :
        CallRead("waitForTransaction", [txHash |-> h])

\* The provider answers a suspended read: the read resumes after its await and
\* runs to its end, and its outcome is what the caller sees.
ReadSettles ==
    \E i \in DOMAIN pending :
        \E env \in AnswersOf(pending[i].op) :
            LET eff == RunRead(pending[i].op, pending[i].args, env)
            IN  /\ calls' = calls + 1
                /\ last' = [op |-> pending[i].op, args |-> pending[i].args,
                            threw |-> eff.threw, error |-> eff.error, ret |-> eff.ret,
                            sent |-> eff.sent, answer |-> eff.answer,
                            tried |-> eff.tried]
                /\ pending' = SubSeq(pending, 1, i - 1)
                                \o SubSeq(pending, i + 1, Len(pending))
                /\ UNCHANGED <<sdk, integ, keyGiven, providerCalls, sendCalls,
                               txSubmitted, encVars, addrVars, regVars, anaVars>>

SwapTokens ==
    \E p \in SdkSwapParamsSet : Finish("swapTokens", p, swapTokens(p))

SdkAddLiquidity ==
    \E p \in SdkLiquidityParamsSet : Finish("sdk.addLiquidity", p, sdkAddLiquidity(p))

BridgeToBase ==
    \E p \in BridgeParamsSet : Finish("bridgeToBase", p, bridgeToBase(p))

SendTransaction ==
    \E to \in Recipients, value \in {"0", "1.0"},
       data \in {<<"0","x">>, <<"0","x","1","2","3","4">>} :
        Finish("sendTransaction", [to |-> to, value |-> value, data |-> data],
               sendTransaction(to, value, data))

GetPoolInfo ==
    \E t0 \in TokenAddrs, t1 \in OutTokens, fee \in Fees, rnd \in RandomHex :
        Finish("getPoolInfo", [token0 |-> t0, token1 |-> t1, fee |-> fee],
               getPoolInfo(t0, t1, fee, rnd))

SwapExactInputSingle ==
    \E p \in SwapParamsSet :
        Finish("swapExactInputSingle", p, swapExactInputSingle(p))

SwapOnAerodrome ==
    \E a \in Amounts, m \in MinAmounts, r \in RouteLists, to \in {TestAccount},
       d \in Deadlines :
        Finish("swapOnAerodrome",
               [amountIn |-> a, amountOutMin |-> m, routes |-> r, to |-> to,
                deadline |-> d],
               swapOnAerodrome(a, m, r, to, d))

AddLiquidity ==
    \E p \in LiquidityParamsSet :
        Finish("addLiquidity", p, addLiquidity(p))

RemoveLiquidity ==
    \E id \in TokenIds, l \in Amounts, m0 \in {<<"4","7","5">>}, m1 \in {<<"4","7","5">>},
       d \in Deadlines :
        Finish("removeLiquidity",
               [tokenId |-> id, liquidity |-> l, amount0Min |-> m0, amount1Min |-> m1,
                deadline |-> d],
               removeLiquidity(id, l, m0, m1, d))

SupplyToCompound ==
    \E asset \in Assets, amount \in Amounts :
        Finish("supplyToCompound", [asset |-> asset, amount |-> amount],
               supplyToCompound(asset, amount))

BorrowFromCompound ==
    \E asset \in Assets, amount \in Amounts :
        Finish("borrowFromCompound", [asset |-> asset, amount |-> amount],
               borrowFromCompound(asset, amount))

StakeLPTokens ==
    \E pool \in Pools, amount \in Amounts :
        Finish("stakeLPTokens", [pool |-> pool, amount |-> amount],
               stakeLPTokens(pool, amount))

ClaimRewards ==
    \E pool \in Pools :
        Finish("claimRewards", [pool |-> pool], claimRewards(pool))

Next ==
    \/ GetBlockNumber
    \/ GetGasPrice
    \/ GetBalance
    \/ GetTokenBalance
    \/ GetTokenInfo
    \/ GetGasEstimate
    \/ WaitForTransaction
    \/ ReadSettles
    \/ SwapTokens
    \/ SdkAddLiquidity
    \/ BridgeToBase
    \/ SendTransaction
    \/ GetPoolInfo
    \/ SwapExactInputSingle
    \/ SwapOnAerodrome
    \/ AddLiquidity
    \/ RemoveLiquidity
    \/ SupplyToCompound
    \/ BorrowFromCompound
    \/ StakeLPTokens
    \/ ClaimRewards

Spec == Init /\ [][Next]_vars

(***************************************************************************)
(* Encoder runs: the eight payload encoders applied to inputs in any       *)
(* order, each call at a later time than the one before. The first call is *)
(* kept as the reference the later ones are compared with.                 *)
(***************************************************************************)
InitEnc ==
    /\ keyGiven = Undefined
    /\ sdk = NewBaseSDK(BaseMainnetConfig, keyGiven)
    /\ integ = NewDeFiIntegrator
    /\ calls = 0
    /\ providerCalls = 0
    /\ sendCalls = 0
    /\ txSubmitted = 0
    /\ last = [op |-> "none", args |-> NoValue, threw |-> FALSE, error |-> "",
               ret |-> NoValue, sent |-> <<>>, answer |-> NoAnswer,
               tried |-> <<>>]
    /\ ref = NoCall
    /\ cur = NoCall
    /\ encCalls = 0
    /\ clock = Now
    /\ addr = <<>>
    /\ verdict = "unasked"
    /\ RegIdle /\ AnaIdle /\ ConcIdle

Encoded(op, args, payload) ==
    /\ encCalls < MaxEncCalls
    /\ encCalls' = encCalls + 1
    /\ cur' = [op |-> op, args |-> args, payload |-> payload, seq |-> encCalls + 1,
               at |-> clock]
    /\ ref' = IF encCalls = 0 THEN cur' ELSE ref
    /\ clock' = clock + 1
    /\ UNCHANGED <<clientVars, addrVars, regVars, anaVars, concVars>>

\* The optional sqrtPriceLimitX96 of SwapParams: absent, or given.
SqrtPriceLimits == {Undefined, "0"}

\* p with the optional field sqrtPriceLimitX96.
WithSqrtPriceLimit(p, s) ==
    [tokenIn |-> p.tokenIn, tokenOut |-> p.tokenOut, amountIn |-> p.amountIn,
     amountOutMinimum |-> p.amountOutMinimum, sqrtPriceLimitX96 |-> s,
     recipient |-> p.recipient, deadline |-> p.deadline]

\* The swap inputs of the encoder runs: every SwapParams without the optional
\* field, and with it those that have a valid minimum and a future deadline.
EncSwapParams ==
    {WithSqrtPriceLimit(p, Undefined) : p \in SwapParamsSet}
    \cup {WithSqrtPriceLimit(p, s) :
            p \in {q \in SwapParamsSet : /\ q.amountOutMinimum = <<"9","9","0">>
                                         /\ q.deadline = Now + 3600},
            s \in SqrtPriceLimits}

EncodeSwap ==
    \E p \in EncSwapParams : Encoded("encodeSwapData", p, encodeSwapData(p))

EncodeAerodrome ==
    \E a \in Amounts, m \in MinAmounts, r \in RouteLists, to \in Recipients,
       d \in Deadlines :
        Encoded("encodeAerodromeSwap",
                [amountIn |-> a, amountOutMin |-> m, routes |-> r, to |-> to,
                 deadline |-> d],
                encodeAerodromeSwap(a, m, r, to, d))

EncodeLiquidity ==
    \E p \in LiquidityParamsSet :
        Encoded("encodeLiquidityData", p, encodeLiquidityData(p))

EncodeRemoveLiquidity ==
    \E id \in TokenIds, l \in Amounts, m0 \in {<<"4","7","5">>}, m1 \in {<<"4","7","5">>},
       d \in Deadlines :
        Encoded("encodeRemoveLiquidityData",
                [tokenId |-> id, liquidity |-> l, amount0Min |-> m0, amount1Min |-> m1,
                 deadline |-> d],
                encodeRemoveLiquidityData(id, l, m0, m1, d))

EncodeSupply ==
    \E asset \in Assets, amount \in Amounts :
        Encoded("encodeSupplyData", [asset |-> asset, amount |-> amount],
                encodeSupplyData(asset, amount))

EncodeBorrow ==
    \E asset \in Assets, amount \in Amounts :
        Encoded("encodeBorrowData", [asset |-> asset, amount |-> amount],
                encodeBorrowData(asset, amount))

EncodeStake ==
    \E pool \in Pools, amount \in Amounts :
        Encoded("encodeStakeData", [pool |-> pool, amount |-> amount],
                encodeStakeData(pool, amount))

EncodeClaim ==
    Encoded("encodeClaimData", NoValue, encodeClaimData)

NextEnc ==
    \/ EncodeSwap
    \/ EncodeAerodrome
    \/ EncodeLiquidity
    \/ EncodeRemoveLiquidity
    \/ EncodeSupply
    \/ EncodeBorrow
    \/ EncodeStake
    \/ EncodeClaim

SpecEnc == InitEnc /\ [][NextEnc]_vars

(***************************************************************************)
(* Address runs: BASE_UTILITIES.isValidBaseAddress applied to a string.    *)
(***************************************************************************)
\* n copies of character c.
Rep(n, c) == [i \in 1..n |-> c]

\* The strings under test: a prefix, then a run of one character with one position
\* overwritten by another character, then possibly a trailing character.
Prefixes == {<<"0","x">>, <<"0","X">>, <<"x","0">>, <<"0">>, <<>>, <<" ","0","x">>}
BodyChars == {"a", "F", "7"}
OddChars == {"g", "G", "-", " ", "f", "0"}
Trailers == {<<>>, <<" ">>}

AddressStrings ==
    {p \o [Rep(n, c) EXCEPT ![k] = d] \o t :
        p \in Prefixes, n \in (MaxBody - 2)..MaxBody, c \in BodyChars,
        k \in {1, MaxBody - 2}, d \in OddChars, t \in Trailers}

InitAddr ==
    /\ keyGiven = Undefined
    /\ sdk = NewBaseSDK(BaseMainnetConfig, keyGiven)
    /\ integ = NewDeFiIntegrator
    /\ calls = 0
    /\ providerCalls = 0
    /\ sendCalls = 0
    /\ txSubmitted = 0
    /\ last = [op |-> "none", args |-> NoValue, threw |-> FALSE, error |-> "",
               ret |-> NoValue, sent |-> <<>>, answer |-> NoAnswer,
               tried |-> <<>>]
    /\ ref = NoCall
    /\ cur = NoCall
    /\ encCalls = 0
    /\ clock = Now
    /\ addr \in AddressStrings
    /\ verdict = "unasked"
    /\ RegIdle /\ AnaIdle /\ ConcIdle

IsValidBaseAddress ==
    /\ verdict = "unasked"
    /\ verdict' = IF isValidBaseAddress(addr) THEN "true" ELSE "false"
    /\ UNCHANGED <<clientVars, encVars, addr, regVars, anaVars, concVars>>

NextAddr == IsValidBaseAddress

SpecAddr == InitAddr /\ [][NextAddr]_vars

(***************************************************************************)
(* Vocabulary of the properties.                                           *)
(***************************************************************************)
SdkTransactionOps == {"swapTokens", "sdk.addLiquidity", "bridgeToBase"}

SubmissionOps ==
    {"swapExactInputSingle", "swapOnAerodrome", "addLiquidity", "removeLiquidity",
     "supplyToCompound", "borrowFromCompound", "stakeLPTokens", "claimRewards"}

\* A step in which operation op ran.
Ran(ops) == calls' = calls + 1 /\ last'.op \in ops

\* '0x' followed by exactly 40 hex digits, stated on the string itself.
WellFormedAddress(s) ==
    /\ Len(s) = 42
    /\ s[1] = "0"
    /\ s[2] = "x"
    /\ \A i \in 3..42 : s[i] \in HexChars

\* A non-empty string of decimal digits: a non-negative integer in smallest units.
NonNegativeInteger(s) == s # <<>> /\ \A i \in DOMAIN s : s[i] \in Range(DecDigits)

\* The amount strings, the deadline and the address strings among the arguments
\* of a submission operation.
AmountsOf(op, a) ==
    CASE op = "swapExactInputSingle" -> {a.amountIn, a.amountOutMinimum}
      [] op = "swapOnAerodrome" -> {a.amountIn, a.amountOutMin}
      [] op = "addLiquidity" ->
            {a.amount0Desired, a.amount1Desired, a.amount0Min, a.amount1Min}
      [] op = "removeLiquidity" -> {a.liquidity, a.amount0Min, a.amount1Min}
      [] op \in {"supplyToCompound", "borrowFromCompound", "stakeLPTokens"} -> {a.amount}
      [] OTHER -> {}

DeadlinesOf(op, a) ==
    IF op \in {"swapExactInputSingle", "swapOnAerodrome", "addLiquidity",
               "removeLiquidity"}
    THEN {a.deadline} ELSE {}

AddressesOf(op, a) ==
    CASE op = "swapExactInputSingle" -> {a.tokenIn, a.tokenOut, a.recipient}
      [] op = "swapOnAerodrome" -> {a.to}
      [] op = "addLiquidity" -> {a.token0, a.token1, a.recipient}
      [] op \in {"supplyToCompound", "borrowFromCompound"} -> {a.asset}
      [] op \in {"stakeLPTokens", "claimRewards"} -> {a.pool}
      [] OTHER -> {}

\* The registered addresses of the protocols of the given names.
RegisteredAddresses(names) ==
    {PROTOCOLS[i].address : i \in {j \in DOMAIN PROTOCOLS : PROTOCOLS[j].name \in names}}

AllProtocolNames == {PROTOCOLS[i].name : i \in DOMAIN PROTOCOLS}

\* The registered addresses a submission of the given kind may go to.
DestinationsFor(op) ==
    CASE op \in {"swapExactInputSingle", "addLiquidity", "removeLiquidity"} ->
            RegisteredAddresses({"Uniswap V3"})
      [] op = "swapOnAerodrome" -> RegisteredAddresses({"Aerodrome"})
      [] op \in {"supplyToCompound", "borrowFromCompound"} ->
            RegisteredAddresses({"Compound V3"})
      [] OTHER -> RegisteredAddresses(AllProtocolNames)

\* The selector and the number of argument words of each encoder's payload.
SelectorOf(op) ==
    CASE op = "encodeSwapData" -> SwapSelector
      [] op = "encodeAerodromeSwap" -> AerodromeSelector
      [] op = "encodeLiquidityData" -> MintSelector
      [] op = "encodeRemoveLiquidityData" -> DecreaseSelector
      [] op = "encodeSupplyData" -> SupplySelector
      [] op = "encodeBorrowData" -> WithdrawSelector
      [] op = "encodeStakeData" -> StakeSelector
      [] OTHER -> GetRewardSelector

WordsOf(op) ==
    CASE op \in {"encodeSwapData", "encodeLiquidityData"} -> 3
      [] op \in {"encodeAerodromeSwap", "encodeRemoveLiquidityData", "encodeSupplyData",
                 "encodeBorrowData"} -> 2
      [] op = "encodeStakeData" -> 1
      [] OTHER -> 0

(***************************************************************************)
(* Properties.                                                             *)
(***************************************************************************)

\* C1: on an SDK constructed without a private key, swapTokens, addLiquidity and
\* bridgeToBase each throw 'Signer required for transactions', whatever their
\* arguments, and the step makes no provider call and no submission.
C1_NoSignerFailsBeforeAnyProviderCall ==
    [][(Ran(SdkTransactionOps) /\ ~Truthy(keyGiven)) =>
         /\ last'.threw
         /\ last'.error = SignerRequired
         /\ providerCalls' = providerCalls
         /\ txSubmitted' = txSubmitted
         /\ sendCalls' = sendCalls]_vars

\* C1 witness: a keyless SDK that has made a provider call before, and whose
\* bridgeToBase then threw.
C1_Witness ==
    /\ keyGiven = Undefined
    /\ providerCalls = 1
    /\ last.op = "bridgeToBase"
    /\ last.threw

\* C2: every DeFiIntegrator submission operation on an SDK without a signer
\* throws the no-signer error, submits nothing to the network and returns no
\* transaction hash.
C2_IntegratorNeedsSigner ==
    [][(Ran(SubmissionOps) /\ ~HasSigner) =>
         /\ last'.threw
         /\ last'.error = SignerRequired
         /\ last'.ret = NoValue
         /\ last'.answer = NoAnswer
         /\ txSubmitted' = txSubmitted]_vars

\* C3: every triple a submission operation builds for the SDK is addressed to a
\* protocol registered for the operation's kind: Uniswap V3 for swapExactInputSingle,
\* addLiquidity and removeLiquidity, Aerodrome for swapOnAerodrome, Compound V3 for
\* supply and borrow, and some registered protocol for stakeLPTokens and
\* claimRewards.
C3_DestinationIsRegistered ==
    last.op \in SubmissionOps =>
        \A i \in DOMAIN last.tried : last.tried[i].to \in DestinationsFor(last.op)

\* C4: with a signer present, sendTransaction returns whenever the network
\* answers, and the result carries the hash, the block number and the gas used as
\* a decimal string; its status is 'success' exactly when the transaction was
\* included with successful execution, and 'failed' when it reverted or never
\* reached confirmation.
C4_NormalizedResult ==
    (last.op = "sendTransaction" /\ HasSigner) =>
        /\ last.answer.kind # "none"
        /\ last.threw <=> last.answer.kind = "unreachable"
        /\ ~last.threw =>
            /\ last.ret.hash = last.answer.hash
            /\ last.ret.status \in {"success", "failed"}
            /\ last.ret.status = "success" <=> last.answer.kind = "included"
            /\ last.answer.kind \in {"reverted", "unconfirmed"} =>
                    last.ret.status = "failed"
            /\ last.answer.kind \in {"included", "reverted"} =>
                    /\ last.ret.blockNumber = last.answer.blockNumber
                    /\ NonNegativeInteger(last.ret.gasUsed)
                    /\ DigitsValue(last.ret.gasUsed, 10) = last.answer.gasUsed
            /\ NonNegativeInteger(last.ret.gasUsed)

C6_InvalidParameterRejected ==
    [][(/\ Ran(SubmissionOps)
        /\ \/ \E s \in AmountsOf(last'.op, last'.args) : ~NonNegativeInteger(s)
           \/ \E d \in DeadlinesOf(last'.op, last'.args) : d <= Now) =>
         /\ last'.threw
         /\ last'.error = "InvalidParameterError"
         /\ last'.tried = <<>>
         /\ sendCalls' = sendCalls]_vars

\* C7: a submission operation given a malformed address (not '0x' and 40 hex
\* digits) throws an invalid-address error; no payload is handed to the SDK and
\* nothing is submitted.
C7_MalformedAddressRejected ==
    [][(/\ Ran(SubmissionOps)
        /\ \E s \in AddressesOf(last'.op, last'.args) : ~WellFormedAddress(s)) =>
         /\ last'.threw
         /\ last'.error = "InvalidAddressError"
         /\ last'.tried = <<>>
         /\ last'.sent = <<>>
         /\ sendCalls' = sendCalls
         /\ txSubmitted' = txSubmitted]_vars

\* C8: isValidBaseAddress answers true exactly for the strings made of '0x' and
\* exactly 40 characters from 0-9, a-f, A-F, and false for every other string.
C8_ValidAddressExactly ==
    verdict # "unasked" =>
        /\ verdict \in {"true", "false"}
        /\ verdict = "true" <=> WellFormedAddress(addr)

\* C8 witness: a mixed-case address of 42 characters was accepted.
C8_Witness ==
    /\ verdict = "true"
    /\ Len(addr) = 42
    /\ \E i, j \in 3..42 : addr[i] = "F" /\ addr[j] = "f"

\* C9: every payload is '0x', the eight hex digits of the encoder's selector and
\* then the encoder's fixed number of 64-digit words: its length is 10 + 64k and
\* every character after '0x' is a hex digit.
C9_PayloadLayout ==
    cur.op # "none" =>
        /\ Len(cur.payload) = 10 + WordLen * WordsOf(cur.op)
        /\ SubSeq(cur.payload, 1, 10) = SelectorOf(cur.op)
        /\ \A i \in 3..Len(cur.payload) : cur.payload[i] \in HexChars

\* C10: getPoolInfo returns a record whose token0 is its first argument, whose
\* token1 is its second argument and whose fee is its fee argument.
C10_PoolInfoEchoesInputs ==
    last.op = "getPoolInfo" =>
        /\ ~last.threw
        /\ last.ret.token0 = last.args.token0
        /\ last.ret.token1 = last.args.token1
        /\ last.ret.fee = last.args.fee

\* C10 witness: a pool was asked for with two different tokens, the first of
\* which is the later one in any ordering by length.
C10_Witness ==
    /\ last.op = "getPoolInfo"
    /\ last.args.token0 = USDC
    /\ last.args.token1 = NonHexAddress
    /\ last.ret.token0 = USDC
    /\ last.ret.fee = -1

(***************************************************************************)
(* The configuration file (src/unnamed/part_000): network configurations   *)
(* and the two lookups over the tables.                                    *)
(***************************************************************************)
BASE_MAINNET ==
    [chainId |-> 8453, name |-> "Base", rpcUrl |-> "https://mainnet.base.org",
     blockExplorer |-> "https://basescan.org"]

BASE_SEPOLIA ==
    [chainId |-> 84532, name |-> "Base Sepolia", rpcUrl |-> "https://sepolia.base.org",
     blockExplorer |-> "https://sepolia.basescan.org"]

\* getNetworkConfig(chainId) answering the mainnet configuration by default.
getNetworkConfigMainnetDefault(chainId) ==
    CASE chainId = 84532 -> BASE_SEPOLIA
      [] OTHER -> BASE_MAINNET

\* getNetworkConfig(chainId): the switch over the two known chain ids.
getNetworkConfig(chainId) ==
    CASE chainId = 8453 -> BASE_MAINNET
      [] chainId = 84532 -> BASE_SEPOLIA
      [] OTHER -> Null

UpperLetters ==
    <<"A","B","C","D","E","F","G","H","I","J","K","L","M","N","O","P","Q","R","S",
      "T","U","V","W","X","Y","Z">>
LowerLetters ==
    <<"a","b","c","d","e","f","g","h","i","j","k","l","m","n","o","p","q","r","s",
      "t","u","v","w","x","y","z">>

\* The character of table `to` at the place c has in table `from`, or c itself
\* when c is not in `from`.
MapChar(c, from, to) ==
    LET at == {i \in DOMAIN from : from[i] = c}
    IN  IF at = {} THEN c ELSE to[CHOOSE i \in at : TRUE]

\* String.prototype.toLowerCase() and toUpperCase() over the ASCII letters.
toLowerCase(s) == [i \in DOMAIN s |-> MapChar(s[i], UpperLetters, LowerLetters)]
toUpperCase(s) == [i \in DOMAIN s |-> MapChar(s[i], LowerLetters, UpperLetters)]

\* getProtocolByAddress comparing the addresses as they are written.
getProtocolByAddressExact(address) ==
    LET hits == {i \in DOMAIN PROTOCOLS : PROTOCOLS[i].address = address}
    IN  IF hits = {} THEN Null
        ELSE PROTOCOLS[CHOOSE i \in hits : \A j \in hits : i <= j]

\* getProtocolByAddress(address): Object.values(PROTOCOLS).find(...) || null, the
\* first protocol in key order whose lower-cased address is the lower-cased
\* argument.
getProtocolByAddress(address) ==
    LET hits == {i \in DOMAIN PROTOCOLS :
                    toLowerCase(PROTOCOLS[i].address) = toLowerCase(address)}
    IN  IF hits = {} THEN Null
        ELSE PROTOCOLS[CHOOSE i \in hits : \A j \in hits : i <= j]

(***************************************************************************)
(* Registry runs: one lookup applied to one argument.                      *)
(***************************************************************************)
\* Chain ids asked for: the two known ones, their neighbours, and other chains.
ChainIds == {8453, 84532, 1, 0, 10, 137, 8452, 8454, 84531, 84533, -8453}

\* Address s with the letter at position k in the other case.
FlipCase(s, k) ==
    [s EXCEPT ![k] = IF s[k] \in Range(UpperLetters)
                     THEN MapChar(s[k], UpperLetters, LowerLetters)
                     ELSE MapChar(s[k], LowerLetters, UpperLetters)]

\* The addresses in the tables and the tests.
KnownAddresses ==
    {PROTOCOLS[i].address : i \in DOMAIN PROTOCOLS}
    \cup {BASE_PROTOCOLS[i].address : i \in DOMAIN BASE_PROTOCOLS}
    \cup {TestAccount, USDC}

\* The addresses looked up: the known ones, their letter-case variants, the same
\* with one digit replaced, one character dropped or one added, and malformed ones.
LookupAddresses ==
    KnownAddresses
    \cup {toLowerCase(a) : a \in KnownAddresses}
    \cup {toUpperCase(a) : a \in KnownAddresses}
    \cup {FlipCase(a, k) : a \in KnownAddresses, k \in 1..42}
    \cup {[a EXCEPT ![k] = d] : a \in KnownAddresses, k \in {3, 20, 42}, d \in {"0", "f"}}
    \cup {SubSeq(a, 1, 41) : a \in KnownAddresses}
    \cup {a \o <<"0">> : a \in KnownAddresses}
    \cup {ShortAddress, <<>>}

InitReg ==
    /\ keyGiven = Undefined
    /\ sdk = NewBaseSDK(BaseMainnetConfig, keyGiven)
    /\ integ = NewDeFiIntegrator
    /\ calls = 0
    /\ providerCalls = 0
    /\ sendCalls = 0
    /\ txSubmitted = 0
    /\ last = [op |-> "none", args |-> NoValue, threw |-> FALSE, error |-> "",
               ret |-> NoValue, sent |-> <<>>, answer |-> NoAnswer,
               tried |-> <<>>]
    /\ ref = NoCall
    /\ cur = NoCall
    /\ encCalls = 0
    /\ clock = Now
    /\ addr = <<>>
    /\ verdict = "unasked"
    /\ query \in [asked : {TRUE}, fn : {"getNetworkConfig"}, arg : ChainIds]
                 \cup [asked : {TRUE}, fn : {"getProtocolByAddress"},
                       arg : LookupAddresses]
    /\ found = NotAsked
    /\ AnaIdle /\ ConcIdle

Looked(fn, ret) ==
    /\ query.fn = fn
    /\ found = NotAsked
    /\ found' = [asked |-> TRUE, ret |-> ret]
    /\ UNCHANGED <<clientVars, encVars, addrVars, query, anaVars, concVars>>

GetNetworkConfig == Looked("getNetworkConfig", getNetworkConfig(query.arg))

GetProtocolByAddress == Looked("getProtocolByAddress", getProtocolByAddress(query.arg))

NextReg == GetNetworkConfig \/ GetProtocolByAddress

SpecReg == InitReg /\ [][NextReg]_vars

\* C11: getNetworkConfig(8453) is the mainnet configuration, whose explorer URL is
\* 'https://basescan.org'; getNetworkConfig(84532) is the Sepolia configuration;
\* every other chain id gets null; and a configuration that is returned has the
\* chain id that was asked for.
C11_NetworkConfigLookup ==
    (found # NotAsked /\ query.fn = "getNetworkConfig") =>
        /\ query.arg = 8453 =>
              /\ found.ret = BASE_MAINNET
              /\ found.ret.blockExplorer = "https://basescan.org"
        /\ query.arg = 84532 => found.ret = BASE_SEPOLIA
        /\ query.arg \notin {8453, 84532} => found.ret = Null
        /\ found.ret # Null => found.ret.chainId = query.arg

\* C11 witness: the lookup of chain id 1 has answered null.
C11_Witness ==
    /\ found # NotAsked
    /\ query.fn = "getNetworkConfig"
    /\ query.arg = 1
    /\ found.ret = Null

\* Whether a and b are the same string up to the case of their letters.
SameIgnoringCase(a, b) ==
    /\ Len(a) = Len(b)
    /\ \A i \in DOMAIN a :
          \/ a[i] = b[i]
          \/ \E k \in DOMAIN UpperLetters :
                {a[i], b[i]} = {UpperLetters[k], LowerLetters[k]}

\* C12: getProtocolByAddress(a) returns the registered protocol whose address is a
\* up to letter case, whichever case variant a is, and null when there is none; it
\* never returns a protocol whose address differs from a in more than letter case.
C12_ProtocolByAddressIgnoresCase ==
    (found # NotAsked /\ query.fn = "getProtocolByAddress") =>
        LET same == {i \in DOMAIN PROTOCOLS :
                        SameIgnoringCase(PROTOCOLS[i].address, query.arg)}
        IN  /\ same = {} => found.ret = Null
            /\ same # {} => \E i \in same : found.ret = PROTOCOLS[i]
            /\ found.ret # Null => SameIgnoringCase(found.ret.address, query.arg)

\* C12 witness: the all-lower-case variant of the Aerodrome address, which is not
\* the registered spelling, has been looked up and Aerodrome was returned.
C12_Witness ==
    /\ found # NotAsked
    /\ query.fn = "getProtocolByAddress"
    /\ query.arg = toLowerCase(PROTOCOLS[3].address)
    /\ query.arg # PROTOCOLS[3].address
    /\ found.ret = PROTOCOLS[3]
    /\ found.ret.name = "Aerodrome"

(***************************************************************************)
(* JavaScript numbers with fractions, for the analytics functions: NaN, an *)
(* infinity, or a finite value kept as a fraction in lowest terms. The     *)
(* rounding of double arithmetic is not modelled; the values of the model  *)
(* are small decimals.                                                     *)
(***************************************************************************)
Abs(x) == IF x < 0 THEN -x ELSE x

RECURSIVE Gcd(_, _)
Gcd(a, b) == IF b = 0 THEN a ELSE Gcd(b, a % b)

\* The finite number n / d (d not 0), in lowest terms with a positive denominator.
Float(n, d) ==
    LET s == IF d < 0 THEN -1 ELSE 1
        g == Gcd(Abs(n), Abs(d))
    IN  [kind |-> "fin", n |-> (s * n) \div g, d |-> (s * d) \div g]

FloatNaN == [kind |-> "nan", n |-> 0, d |-> 1]
Infinity(sign) == [kind |-> "inf", n |-> sign, d |-> 1]

\* A property that is absent from an object reads as undefined.
UndefinedProperty == [kind |-> "undefined", n |-> 0, d |-> 1]

\* ToNumber: undefined converts to NaN, a number is itself.
ToNumber(v) == IF v.kind = "undefined" THEN FloatNaN ELSE v

SignOf(x) == IF x.n > 0 THEN 1 ELSE IF x.n < 0 THEN -1 ELSE 0

\* x + y
Plus(x, y) ==
    IF x.kind = "nan" \/ y.kind = "nan" THEN FloatNaN
    ELSE IF x.kind = "inf" /\ y.kind = "inf"
    THEN (IF x.n = y.n THEN x ELSE FloatNaN)
    ELSE IF x.kind = "inf" THEN x
    ELSE IF y.kind = "inf" THEN y
    ELSE Float(x.n * y.d + y.n * x.d, x.d * y.d)

\* x * y
Times(x, y) ==
    IF x.kind = "nan" \/ y.kind = "nan" THEN FloatNaN
    ELSE IF x.kind = "inf" \/ y.kind = "inf"
    THEN (IF SignOf(x) * SignOf(y) = 0 THEN FloatNaN
          ELSE Infinity(SignOf(x) * SignOf(y)))
    ELSE Float(x.n * y.n, x.d * y.d)

\* x / y: 0 / 0 is NaN, any other finite value over 0 is an infinity (the sign of
\* a zero is not modelled: every zero is +0).
Divide(x, y) ==
    IF x.kind = "nan" \/ y.kind = "nan" THEN FloatNaN
    ELSE IF x.kind = "inf"
    THEN (IF y.kind = "inf" THEN FloatNaN
          ELSE Infinity(IF SignOf(y) < 0 THEN -x.n ELSE x.n))
    ELSE IF y.kind = "inf" THEN Float(0, 1)
    ELSE IF y.n = 0
    THEN (IF x.n = 0 THEN FloatNaN ELSE Infinity(SignOf(x)))
    ELSE Float(x.n * y.d, x.d * y.n)

\* x > y after ToNumber: false whenever either side is NaN.
GreaterThan(a, b) ==
    LET x == ToNumber(a)
        y == ToNumber(b)
    IN  IF x.kind = "nan" \/ y.kind = "nan" THEN FALSE
        ELSE IF x.kind = "inf" THEN x.n = 1 /\ ~(y.kind = "inf" /\ y.n = 1)
        ELSE IF y.kind = "inf" THEN y.n = -1
        ELSE x.n * y.d > y.n * x.d

\* Math.min(x, y): NaN when either is NaN.
MathMin(x, y) ==
    IF x.kind = "nan" \/ y.kind = "nan" THEN FloatNaN
    ELSE IF GreaterThan(x, y) THEN y ELSE x

RECURSIVE Pow10(_)
Pow10(k) == IF k = 0 THEN 1 ELSE 10 * Pow10(k - 1)

\* parseFloat(s): white space trimmed, an optional sign, decimal digits with an
\* optional fraction; NaN when there is no digit. Whatever follows is ignored. (An
\* exponent part and the literal Infinity are not among the inputs of the model.)
parseFloat(s) ==
    LET t    == TrimStart(s)
        neg  == t # <<>> /\ Head(t) = "-"
        u    == IF t # <<>> /\ Head(t) \in {"-", "+"} THEN Tail(t) ELSE t
        ip   == DigitPrefix(u, 10)
        rest == SubSeq(u, Len(ip) + 1, Len(u))
        fp   == IF rest # <<>> /\ Head(rest) = "."
                THEN DigitPrefix(Tail(rest), 10) ELSE <<>>
    IN  IF ip = <<>> /\ fp = <<>> THEN FloatNaN
        ELSE Float((IF neg THEN -1 ELSE 1)
                     * (DigitsValue(ip, 10) * Pow10(Len(fp)) + DigitsValue(fp, 10)),
                   Pow10(Len(fp)))

\* The decimal digits of the fraction r / d (r < d), at most `fuel` of them.
RECURSIVE FractionDigits(_, _, _)
FractionDigits(r, d, fuel) ==
    IF r = 0 \/ fuel = 0 THEN <<>>
    ELSE <<DecDigits[((10 * r) \div d) + 1]>> \o FractionDigits((10 * r) % d, d, fuel - 1)

\* Number.prototype.toString(): "NaN", "Infinity", or the decimal digits, with a
\* fraction part when the value is no integer (exact for terminating decimals of
\* up to 17 digits, which all sums of the model are).
numberToString(x) ==
    IF x.kind = "nan" THEN <<"N","a","N">>
    ELSE IF x.kind = "inf"
    THEN (IF x.n < 0 THEN <<"-">> ELSE <<>>) \o <<"I","n","f","i","n","i","t","y">>
    ELSE LET a == Abs(x.n)
             whole == NatToDigits(a \div x.d, 10)
             frac == FractionDigits(a % x.d, x.d, 17)
         IN  (IF x.n < 0 THEN <<"-">> ELSE <<>>) \o whole
             \o (IF frac = <<>> THEN <<>> ELSE <<".">> \o frac)

(***************************************************************************)
(* Portfolio analytics (src/src/DeFiIntegrator.ts).                        *)
(***************************************************************************)
\* getPortfolioValue(user): the fixed mock snapshot.
getPortfolioValue(user) ==
    [totalValue |-> <<"1","0","0","0","0","0","0","0","0","0","0","0","0","0","0","0","0","0","0","0">>,
     breakdown |->
        << [protocol |-> "Uniswap V3", value |-> <<"5","0","0","0","0","0","0","0","0","0","0","0","0","0","0","0","0","0","0">>],
           [protocol |-> "Aerodrome", value |-> <<"3","0","0","0","0","0","0","0","0","0","0","0","0","0","0","0","0","0","0">>],
           [protocol |-> "Compound V3", value |-> <<"2","0","0","0","0","0","0","0","0","0","0","0","0","0","0","0","0","0","0">>] >>]

\* The error of evaluating an identifier that no scope declares.
GetProtocolBalanceNotDefined == "ReferenceError: getProtocolBalance is not defined"

\* getProtocolBalance(user, protocol): the callback of protocols.map evaluates this
\* identifier, which the file neither declares nor imports: a ReferenceError.
getProtocolBalance(user, protocol) == Throw(GetProtocolBalanceNotDefined)

\* balances.reduce((sum, {value}) => sum + parseFloat(value), 0)
RECURSIVE ReduceSum(_)
ReduceSum(balances) ==
    IF balances = <<>> THEN Float(0, 1)
    ELSE Plus(ReduceSum(SubSeq(balances, 1, Len(balances) - 1)),
              parseFloat(balances[Len(balances)].value))

\* getPortfolioBalance(user, protocols): Promise.all over one getProtocolBalance
\* call per requested protocol, rejecting with the first rejection; then the total
\* as the string of the sum of the balances and each share as value / total * 100.
getPortfolioBalance(user, protocols) ==
    LET answers == [i \in DOMAIN protocols |-> getProtocolBalance(user, protocols[i])]
        rejected == {i \in DOMAIN answers : answers[i].threw}
        balances == [i \in DOMAIN protocols |->
                        [protocol |-> protocols[i], value |-> answers[i].ret]]
        totalValue == numberToString(ReduceSum(balances))
    IN  IF rejected # {}
        THEN Throw(answers[CHOOSE i \in rejected : \A j \in rejected : i <= j].error)
        ELSE Return([totalValue |-> totalValue,
                     breakdown |-> [i \in DOMAIN balances |->
                        [protocol |-> balances[i].protocol,
                         value |-> balances[i].value,
                         percentage |-> Times(Divide(parseFloat(balances[i].value),
                                                     parseFloat(totalValue)),
                                              Float(100, 1))]]])

\* `if (position.apr > 20) riskScore += 3; else if (position.apr > 10) riskScore
\* += 2; else riskScore += 1;`
AprPoints(apr) ==
    IF GreaterThan(apr, Float(20, 1)) THEN 3
    ELSE IF GreaterThan(apr, Float(10, 1)) THEN 2
    ELSE 1

\* `if (position.protocol === 'Compound V3') riskScore += 1; else if
\* (position.protocol === 'Uniswap V3') riskScore += 2; else riskScore += 3;`
ProtocolPoints(protocol) ==
    IF protocol = "Compound V3" THEN 1
    ELSE IF protocol = "Uniswap V3" THEN 2
    ELSE 3

\* The value of riskScore after positions.forEach(...).
RECURSIVE RiskSum(_)
RiskSum(positions) ==
    IF positions = <<>> THEN 0
    ELSE RiskSum(SubSeq(positions, 1, Len(positions) - 1))
         + AprPoints(positions[Len(positions)].apr)
         + ProtocolPoints(positions[Len(positions)].protocol)

\* calculateRiskScore(positions): Math.min(riskScore / positions.length, 10).
calculateRiskScore(positions) ==
    MathMin(Divide(Float(RiskSum(positions), 1), Float(Len(positions), 1)),
            Float(10, 1))

Diversify == "Consider diversifying - one protocol holds >50% of portfolio"
HighApr == "High APR positions detected - monitor for sustainability"

\* getRebalancingSuggestions flagging a share of 50% or more.
getRebalancingSuggestionsAtLeastHalf(portfolio) ==
    LET over(p) == ~GreaterThan(Float(50, 1), p.percentage)
                   /\ ToNumber(p.percentage).kind # "nan"
        high(p) == GreaterThan(p.apr, Float(25, 1))
    IN  (IF \E i \in DOMAIN portfolio.breakdown : over(portfolio.breakdown[i])
         THEN <<Diversify>> ELSE <<>>)
        \o (IF Len(SelectSeq(portfolio.breakdown, high)) > 0
            THEN <<HighApr>> ELSE <<>>)

\* getRebalancingSuggestions(portfolio): the diversification hint when some entry's
\* percentage is above 50, then the high-APR hint when some entry's apr is above 25.
getRebalancingSuggestions(portfolio) ==
    LET over(p) == GreaterThan(p.percentage, Float(50, 1))
        high(p) == GreaterThan(p.apr, Float(25, 1))
    IN  (IF \E i \in DOMAIN portfolio.breakdown : over(portfolio.breakdown[i])
         THEN <<Diversify>> ELSE <<>>)
        \o (IF Len(SelectSeq(portfolio.breakdown, high)) > 0
            THEN <<HighApr>> ELSE <<>>)

(***************************************************************************)
(* Analytics runs: one analytics function applied to one argument.         *)
(***************************************************************************)
\* Longest protocol list getPortfolioBalance is asked about.
MaxProtocols == 3
\* Longest position list and longest breakdown of the other two functions.
MaxPositions == 2

\* All sequences over S of length 0 to n.
SeqUpTo(S, n) == UNION {[1..k -> S] : k \in 0..n}

ProtocolNames == {"Uniswap V3", "Aerodrome", "Compound V3"}

\* Positions: the protocols of the registry, one that is in BASE_PROTOCOLS only,
\* and APRs on, beside and between the thresholds 10 and 20.
PositionProtocols == {"Compound V3", "Uniswap V3", "Aerodrome", "Moonwell", "Base Bridge"}
PositionAprs ==
    {Float(5, 1), Float(10, 1), Float(21, 2), Float(20, 1), Float(41, 2), Float(25, 1)}
Positions == [protocol : PositionProtocols, apr : PositionAprs]

\* Breakdown entries: shares on and beside 50 and an undefined-by-zero share, APRs
\* on and beside 25 and an entry without apr.
EntryPercentages ==
    {FloatNaN, Float(0, 1), Float(40, 1), Float(50, 1), Float(101, 2), Float(60, 1)}
EntryAprs == {UndefinedProperty, Float(10, 1), Float(25, 1), Float(51, 2), Float(30, 1)}
Entries == [protocol : {"Uniswap V3"}, percentage : EntryPercentages, apr : EntryAprs]

AnalyticsCalls ==
    [asked : {TRUE}, fn : {"getPortfolioBalance"},
     arg : [user : {TestAccount, ShortAddress},
            protocols : SeqUpTo(ProtocolNames, MaxProtocols)]]
    \cup [asked : {TRUE}, fn : {"getPortfolioValue"},
          arg : [user : {TestAccount, ShortAddress}]]
    \cup [asked : {TRUE}, fn : {"calculateRiskScore"},
          arg : [positions : SeqUpTo(Positions, MaxPositions)]]
    \cup [asked : {TRUE}, fn : {"getRebalancingSuggestions"},
          arg : [breakdown : SeqUpTo(Entries, MaxPositions)]]

InitAna ==
    /\ keyGiven = Undefined
    /\ sdk = NewBaseSDK(BaseMainnetConfig, keyGiven)
    /\ integ = NewDeFiIntegrator
    /\ calls = 0
    /\ providerCalls = 0
    /\ sendCalls = 0
    /\ txSubmitted = 0
    /\ last = [op |-> "none", args |-> NoValue, threw |-> FALSE, error |-> "",
               ret |-> NoValue, sent |-> <<>>, answer |-> NoAnswer,
               tried |-> <<>>]
    /\ ref = NoCall
    /\ cur = NoCall
    /\ encCalls = 0
    /\ clock = Now
    /\ addr = <<>>
    /\ verdict = "unasked"
    /\ given \in AnalyticsCalls
    /\ computed = NotAsked
    /\ RegIdle /\ ConcIdle

Computed(fn, ret) ==
    /\ given.fn = fn
    /\ computed = NotAsked
    /\ computed' = [asked |-> TRUE, ret |-> ret]
    /\ UNCHANGED <<clientVars, encVars, addrVars, regVars, given, concVars>>

\* The mark of a call whose promise has not settled yet.
Awaiting == [asked |-> TRUE, awaiting |-> TRUE]

\* The call of getPortfolioBalance: it runs to `await Promise.all(...)` and hands
\* back a pending promise, for the empty list too.
GetPortfolioBalance ==
    /\ given.fn = "getPortfolioBalance"
    /\ computed = NotAsked
    /\ computed' = Awaiting
    /\ UNCHANGED <<clientVars, encVars, addrVars, regVars, given, concVars>>

\* The promise of getPortfolioBalance settles: resolved with the snapshot or
\* rejected with the error of the first rejected balance.
PortfolioBalanceSettles ==
    /\ given.fn = "getPortfolioBalance"
    /\ computed = Awaiting
    /\ computed' = [asked |-> TRUE]
                    @@ getPortfolioBalance(given.arg.user, given.arg.protocols)
    /\ UNCHANGED <<clientVars, encVars, addrVars, regVars, given, concVars>>

GetPortfolioValue == Computed("getPortfolioValue", getPortfolioValue(given.arg.user))

CalculateRiskScore ==
    Computed("calculateRiskScore", calculateRiskScore(given.arg.positions))

GetRebalancingSuggestions ==
    Computed("getRebalancingSuggestions", getRebalancingSuggestions(given.arg))

NextAna ==
    \/ GetPortfolioBalance
    \/ PortfolioBalanceSettles
    \/ GetPortfolioValue
    \/ CalculateRiskScore
    \/ GetRebalancingSuggestions

SpecAna == InitAna /\ [][NextAna]_vars

(***************************************************************************)
(* Properties of the analytics functions.                                  *)
(***************************************************************************)
Returned(fn) == computed \notin {NotAsked, Awaiting} /\ given.fn = fn

\* The exact sum of the value strings of a breakdown, read as decimals.
RECURSIVE ValueSum(_)
ValueSum(breakdown) ==
    IF breakdown = <<>> THEN Float(0, 1)
    ELSE Plus(parseFloat(Head(breakdown).value), ValueSum(Tail(breakdown)))

\* C13: when the position list is not empty and the values sum to zero,
\* getPortfolioBalance returns a snapshot in which every breakdown entry has the
\* percentage 0, never NaN or another undefined share.
C13_ZeroTotalGivesZeroPercentages ==
    (Returned("getPortfolioBalance") /\ given.arg.protocols # <<>>)
    => /\ ~computed.threw
       /\ ValueSum(computed.ret.breakdown) = Float(0, 1)
             => \A i \in DOMAIN computed.ret.breakdown :
                   computed.ret.breakdown[i].percentage = Float(0, 1)

\* The digits of a + b for two strings of decimal digits, added from the right.
RECURSIVE AddDigits(_, _, _)
AddDigits(a, b, carry) ==
    IF a = <<>> /\ b = <<>>
    THEN (IF carry = 0 THEN <<>> ELSE <<DecDigits[carry + 1]>>)
    ELSE LET da == IF a = <<>> THEN 0 ELSE DigitValue(a[Len(a)], 10)
             db == IF b = <<>> THEN 0 ELSE DigitValue(b[Len(b)], 10)
             s  == da + db + carry
         IN  AddDigits(IF a = <<>> THEN a ELSE SubSeq(a, 1, Len(a) - 1),
                       IF b = <<>> THEN b ELSE SubSeq(b, 1, Len(b) - 1),
                       s \div 10)
             \o <<DecDigits[(s % 10) + 1]>>

\* The sum of the value strings of a breakdown of non-negative integer strings, as
\* a string of decimal digits of any length.
RECURSIVE DecimalValueSum(_)
DecimalValueSum(breakdown) ==
    IF breakdown = <<>> THEN <<"0">>
    ELSE IF Len(breakdown) = 1 THEN Head(breakdown).value
    ELSE AddDigits(Head(breakdown).value, DecimalValueSum(Tail(breakdown)), 0)

\* C14: getPortfolioBalance returns one breakdown entry per requested protocol, in
\* request order; a totalValue that is the sum of the entries' values; for a
\* positive total, each percentage is value / total * 100; for an empty list, total
\* '0' and an empty breakdown. The snapshot of getPortfolioValue has a totalValue
\* that is the sum of its entries' values too.
C14_TotalIsSumOfBreakdown ==
    /\ Returned("getPortfolioBalance") =>
          /\ ~computed.threw
          /\ LET out   == computed.ret
                  asked == given.arg.protocols
                  total == parseFloat(out.totalValue)
              IN  /\ Len(out.breakdown) = Len(asked)
                  /\ \A i \in DOMAIN asked : out.breakdown[i].protocol = asked[i]
                  /\ total = ValueSum(out.breakdown)
                  /\ out.totalValue = numberToString(ValueSum(out.breakdown))
                  /\ asked = <<>> => (out.totalValue = <<"0">> /\ out.breakdown = <<>>)
                  /\ GreaterThan(total, Float(0, 1)) =>
                        \A i \in DOMAIN out.breakdown :
                           LET v   == parseFloat(out.breakdown[i].value)
                               pct == out.breakdown[i].percentage
                           IN  /\ pct.kind = "fin"
                               /\ pct.n * total.n * v.d = 100 * v.n * total.d * pct.d
    /\ Returned("getPortfolioValue") =>
          computed.ret.totalValue = DecimalValueSum(computed.ret.breakdown)

\* The points the specification gives an APR: 1 below 10, 2 from 10 to 20
\* inclusive, 3 above 20.
AprTier(apr) ==
    IF GreaterThan(Float(10, 1), apr) THEN 1
    ELSE IF GreaterThan(apr, Float(20, 1)) THEN 3
    ELSE 2

\* The points the specification gives a protocol by its class in the registry:
\* 1 for a lending protocol, 2 for an exchange, 3 for any other.
ClassPoints(protocol) ==
    LET at == {i \in DOMAIN PROTOCOLS : PROTOCOLS[i].name = protocol}
    IN  IF at = {} THEN 3
        ELSE IF \E i \in at : PROTOCOLS[i].category = "lending" THEN 1
        ELSE IF \E i \in at : PROTOCOLS[i].category = "dex" THEN 2
        ELSE 3

\* The sum over the positions of the two contributions the specification gives.
RECURSIVE PointsSum(_)
PointsSum(positions) ==
    IF positions = <<>> THEN 0
    ELSE AprTier(Head(positions).apr) + ClassPoints(Head(positions).protocol)
         + PointsSum(Tail(positions))

\* The mean contribution per position, capped at 10, for a list that is not empty.
CappedMean(positions) ==
    LET mean == Float(PointsSum(positions), Len(positions))
    IN  IF GreaterThan(mean, Float(10, 1)) THEN Float(10, 1) ELSE mean

\* C15: the APR contribution of a position is 1 point below 10, 2 points from 10
\* to 20 inclusive (so at exactly 10 and at exactly 20), 3 points above 20. Stated
\* on positions of Compound V3 and Uniswap V3, whose protocol contribution (1 and
\* 2) is not in question.
C15_AprTiers ==
    (/\ Returned("calculateRiskScore")
     /\ given.arg.positions # <<>>
     /\ \A i \in DOMAIN given.arg.positions :
           given.arg.positions[i].protocol \in {"Compound V3", "Uniswap V3"})
    => computed.ret = CappedMean(given.arg.positions)

\* C16: the protocol contribution of a position is 1 for a lending protocol
\* (Compound V3, Moonwell), 2 for an exchange (Uniswap V3, Aerodrome), 3 for any
\* other, and the score is the mean contribution capped at 10; one position with
\* APR 25 on Uniswap V3 scores 5. Stated on positions whose APR is not exactly
\* 10, the value whose APR contribution is in question.
C16_ProtocolClassPoints ==
    (/\ Returned("calculateRiskScore")
     /\ given.arg.positions # <<>>
     /\ \A i \in DOMAIN given.arg.positions :
           given.arg.positions[i].apr # Float(10, 1))
    => /\ computed.ret = CappedMean(given.arg.positions)
       /\ given.arg.positions = <<[protocol |-> "Uniswap V3", apr |-> Float(25, 1)]>>
             => computed.ret = Float(5, 1)

\* C17: calculateRiskScore of the empty list is 0, not NaN.
C17_EmptyListScoresZero ==
    (Returned("calculateRiskScore") /\ given.arg.positions = <<>>)
    => computed.ret = Float(0, 1)

\* How often x occurs in the sequence s.
Occurrences(s, x) == Cardinality({i \in DOMAIN s : s[i] = x})

\* C18: getRebalancingSuggestions returns the diversification hint exactly when
\* some entry's percentage is strictly above 50 and the high-APR hint exactly when
\* some entry's apr is strictly above 25; each at most once, independently of the
\* other, the diversification hint first.
C18_RebalancingFlags ==
    Returned("getRebalancingSuggestions") =>
        LET entries == given.arg.breakdown
            out == computed.ret
            isAbove(x, limit) ==
                /\ x.kind \in {"fin", "inf"}
                /\ IF x.kind = "inf" THEN x.n > 0 ELSE x.n > limit * x.d
            concentrated == \E i \in DOMAIN entries : isAbove(entries[i].percentage, 50)
            highApr == \E i \in DOMAIN entries : isAbove(entries[i].apr, 25)
        IN  /\ Occurrences(out, Diversify) = IF concentrated THEN 1 ELSE 0
            /\ Occurrences(out, HighApr) = IF highApr THEN 1 ELSE 0
            /\ Len(out) = Occurrences(out, Diversify) + Occurrences(out, HighApr)
            /\ (concentrated /\ highApr) => out = <<Diversify, HighApr>>

\* C18 witness: one entry holds 60%, another 40%, every APR is below 25, and
\* exactly the diversification hint came back.
C18_Witness ==
    /\ Returned("getRebalancingSuggestions")
    /\ Len(given.arg.breakdown) = 2
    /\ given.arg.breakdown[1].percentage = Float(60, 1)
    /\ given.arg.breakdown[2].percentage = Float(40, 1)
    /\ \A i \in 1..2 : given.arg.breakdown[i].apr = Float(10, 1)
    /\ computed.ret = <<Diversify>>

(***************************************************************************)
(* Properties of the dispatch and of the client's state.                   *)
(***************************************************************************)
\* C19: a DeFiIntegrator submission operation calls the SDK's sendTransaction
\* exactly once, with value '0': the SDK receives the one triple the operation
\* built, at most one submission reaches the network, an operation that returns,
\* returns exactly a hash, and an operation that throws, throws the error of the
\* SDK's submit (no signer, or the transport's failure) unchanged.
C19_SingleSubmitNoRetry ==
    [][Ran(SubmissionOps) =>
         /\ Len(last'.tried) = 1
         /\ last'.tried[1].value = "0"
         /\ last'.sent = last'.tried
         /\ sendCalls' = sendCalls + 1
         /\ txSubmitted' \in {txSubmitted, txSubmitted + 1}
         /\ last'.threw => /\ last'.error \in {SignerRequired, NetworkError}
                           /\ last'.ret = NoValue
         /\ ~last'.threw => DOMAIN last'.ret = {"hash"}]_vars

(***************************************************************************)
(* Concurrent runs: operations issued on one client while earlier ones are *)
(* still waiting for the network. An async method runs up to its await     *)
(* when it is called and resumes when the awaited answer arrives; other    *)
(* operations can be issued and can resume in between.                     *)
(***************************************************************************)
\* Operations one run has in flight or finished.
MaxPending == 2

\* The SDK object after a step of an operation, with bridgeToBase dropping the
\* signer.
sdkAfterSignerCleared(op, s) ==
    IF op = "bridgeToBase" THEN [s EXCEPT !.signer = Undefined] ELSE s

\* The SDK object after a step of an operation: no method of BaseSDK assigns
\* this.config, this.provider or this.signer; only the constructor does.
sdkAfter(op, s) == s

\* The integrator object after a step of an operation: no method of DeFiIntegrator
\* assigns a router field; only the constructor does.
integAfter(op, r) == r

\* The operations issued in the concurrent runs.
ConcSubmissions ==
    {[op |-> "swapExactInputSingle",
      args |-> [tokenIn |-> USDC, tokenOut |-> WETH, amountIn |-> <<"1","0","0","0">>,
                amountOutMinimum |-> <<"9","9","0">>, recipient |-> TestAccount,
                deadline |-> Now + 3600]],
     [op |-> "swapOnAerodrome",
      args |-> [amountIn |-> <<"1","0","0","0">>, amountOutMin |-> <<"9","9","0">>,
                routes |-> <<>>, to |-> TestAccount, deadline |-> Now + 3600]],
     [op |-> "removeLiquidity",
      args |-> [tokenId |-> 12345, liquidity |-> <<"1","0","0","0">>,
                amount0Min |-> <<"4","7","5">>, amount1Min |-> <<"4","7","5">>,
                deadline |-> Now + 3600]],
     [op |-> "claimRewards", args |-> [pool |-> TestAccount]]}
    \cup {[op |-> "addLiquidity", args |-> p] :
            p \in {q \in LiquidityParamsSet :
                     q.token0 = USDC /\ q.token1 = WETH /\ q.fee = 3000
                     /\ q.deadline = Now + 3600}}
    \cup {[op |-> o, args |-> [asset |-> USDC, amount |-> <<"1","0","0","0">>]] :
            o \in {"supplyToCompound", "borrowFromCompound"}}
    \cup {[op |-> "stakeLPTokens", args |-> [pool |-> p, amount |-> <<"1","0","0","0">>]] :
            p \in {TestAccount, ShortAddress}}

ConcSdkTransactions ==
    {[op |-> "swapTokens", args |-> p] :
        p \in {q \in SdkSwapParamsSet : q.amountIn = <<"1","0","0","0">>}}
    \cup {[op |-> "sdk.addLiquidity", args |-> p] :
            p \in {q \in SdkLiquidityParamsSet : q.amount0 = <<"1","0","0","0">>}}
    \cup {[op |-> "bridgeToBase", args |-> p] :
            p \in {q \in BridgeParamsSet : q.amount = <<"1","0","0","0">> /\ q.token = USDC}}

ConcReads ==
    {[op |-> o, args |-> NoValue] : o \in {"getBlockNumber", "getGasPrice"}}
    \cup {[op |-> "getBalance", args |-> [address |-> a]] :
             a \in {TestAccount, ShortAddress}}
    \cup {[op |-> "getTokenBalance",
           args |-> [tokenAddress |-> USDC, userAddress |-> TestAccount]],
          [op |-> "getTokenInfo", args |-> [tokenAddress |-> USDC]],
          [op |-> "getGasEstimate", args |-> [to |-> TestAccount, data |-> <<"0","x">>]],
          [op |-> "waitForTransaction", args |-> [txHash |-> "0x1234567890abcdef"]]}

InitConc ==
    /\ keyGiven \in PrivateKeys
    /\ sdk = NewBaseSDK(BaseMainnetConfig, keyGiven)
    /\ integ = NewDeFiIntegrator
    /\ calls = 0
    /\ providerCalls = 0
    /\ sendCalls = 0
    /\ txSubmitted = 0
    /\ last = [op |-> "none", args |-> NoValue, threw |-> FALSE, error |-> "",
               ret |-> NoValue, sent |-> <<>>, answer |-> NoAnswer,
               tried |-> <<>>]
    /\ ref = NoCall
    /\ cur = NoCall
    /\ encCalls = 0
    /\ clock = Now
    /\ addr = <<>>
    /\ verdict = "unasked"
    /\ RegIdle /\ AnaIdle
    /\ pending = <<>>

\* One step of operation op replaces the list of operations and leaves the two
\* objects as the step's code leaves them.
ConcStep(op, list) ==
    /\ pending' = list
    /\ sdk' = sdkAfter(op, sdk)
    /\ integ' = integAfter(op, integ)
    /\ UNCHANGED <<keyGiven, calls, providerCalls, sendCalls, txSubmitted, last,
                   encVars, addrVars, regVars, anaVars>>

Issued(op, args, stage, sent, outcome) ==
    [op |-> op, args |-> args, stage |-> stage, sent |-> sent,
     threw |-> outcome.threw, error |-> outcome.error, ret |-> outcome.ret,
     answer |-> NoAnswer]

Settled(entry, outcome, env) ==
    [entry EXCEPT !.stage = "settled", !.threw = outcome.threw,
                  !.error = outcome.error, !.ret = outcome.ret, !.answer = env]

\* A submission operation of the integrator with its arguments a.
RunSubmission(op, a) ==
    CASE op = "swapExactInputSingle" -> swapExactInputSingle(a)
      [] op = "swapOnAerodrome" ->
            swapOnAerodrome(a.amountIn, a.amountOutMin, a.routes, a.to, a.deadline)
      [] op = "addLiquidity" -> addLiquidity(a)
      [] op = "removeLiquidity" ->
            removeLiquidity(a.tokenId, a.liquidity, a.amount0Min, a.amount1Min,
                            a.deadline)
      [] op = "supplyToCompound" -> supplyToCompound(a.asset, a.amount)
      [] op = "borrowFromCompound" -> borrowFromCompound(a.asset, a.amount)
      [] op = "stakeLPTokens" -> stakeLPTokens(a.pool, a.amount)
      [] op = "claimRewards" -> claimRewards(a.pool)

\* A submission operation is called: it encodes and calls sdk.sendTransaction,
\* which throws before the operation's await has anything to wait for, so the
\* call runs to its end.
IssueSubmission ==
    \E c \in ConcSubmissions :
        /\ Len(pending) < MaxPending
        /\ ConcStep(c.op,
                    Append(pending,
                           Issued(c.op, c.args, "settled", <<>>,
                                  RunSubmission(c.op, c.args))))

\* swapTokens, addLiquidity or bridgeToBase of the SDK is called: none of them
\* awaits, so the call runs to its end.
IssueSdkTransaction ==
    \E c \in ConcSdkTransactions :
        /\ Len(pending) < MaxPending
        /\ ConcStep(c.op,
                    Append(pending,
                           Issued(c.op, c.args, "settled", <<>>,
                                  CASE c.op = "swapTokens" -> swapTokens(c.args)
                                    [] c.op = "sdk.addLiquidity" -> sdkAddLiquidity(c.args)
                                    [] c.op = "bridgeToBase" -> bridgeToBase(c.args))))

\* A read is called: it asks the provider and waits.
IssueRead ==
    \E c \in ConcReads :
        /\ Len(pending) < MaxPending
        /\ ConcStep(c.op, Append(pending, Issued(c.op, c.args, "awaiting", <<>>,
                                                 Return(NoValue))))

\* The provider answers a waiting read.
SettleRead ==
    \E i \in {j \in DOMAIN pending : pending[j].stage = "awaiting"} :
        \E env \in AnswersOf(pending[i].op) :
            /\ pending[i].op \in ReadOps
            /\ ConcStep(pending[i].op,
                        [pending EXCEPT ![i] =
                            Settled(@, RunRead(pending[i].op, pending[i].args, env),
                                    env)])

NextConc ==
    \/ IssueSubmission
    \/ IssueSdkTransaction
    \/ IssueRead
    \/ SettleRead

SpecConc == InitConc /\ [][NextConc]_vars

\* The outcome operation op has when it runs alone, from call to return, on the
\* client as it is now, with the network answering env.
RunAlone(op, a, env) ==
    CASE op \in SubmissionOps -> RunSubmission(op, a)
      [] op = "swapTokens" -> swapTokens(a)
      [] op = "sdk.addLiquidity" -> sdkAddLiquidity(a)
      [] op = "bridgeToBase" -> bridgeToBase(a)
      [] op \in ReadOps -> RunRead(op, a, env)

\* C20: in every state the client is as its constructors left it: the SDK's
\* config, provider handle and signer and the integrator's three router addresses
\* are unchanged, and the signer is present exactly when a non-empty private key
\* was given; and every operation that has finished, whatever was issued or
\* resumed while it waited, has the outcome it has when it runs alone.
C20_ClientIsReadOnlyAfterConstruction ==
    /\ sdk = NewBaseSDK(BaseMainnetConfig, keyGiven)
    /\ integ = NewDeFiIntegrator
    /\ HasSigner <=> keyGiven \notin {Undefined, ""}
    /\ \A i \in DOMAIN pending :
          pending[i].stage = "settled" =>
              LET alone == RunAlone(pending[i].op, pending[i].args, pending[i].answer)
              IN  /\ pending[i].threw = alone.threw
                  /\ pending[i].error = alone.error
                  /\ pending[i].ret = alone.ret
                  /\ pending[i].sent = alone.sent

\* C20 witness: with a signer present, getBalance is still waiting for the
\* provider while bridgeToBase, issued after it, has returned.
C20_Witness ==
    /\ HasSigner
    /\ Len(pending) = 2
    /\ pending[1].op = "getBalance"
    /\ pending[1].stage = "awaiting"
    /\ pending[2].op = "bridgeToBase"
    /\ pending[2].stage = "settled"
    /\ ~pending[2].threw

(***************************************************************************)
(* Properties of the SDK's error handling.                                 *)
(***************************************************************************)
\* C21: no read substitutes a default for a read that failed or returned nothing:
\* when the provider call fails, getBlockNumber, getGasPrice and getBalance throw
\* the provider's error; when the fee data holds no gas price, getGasPrice throws
\* rather than return 0; and a read that returns, returns the provider's value.
C21_NoDefaultForFailedRead ==
    \A i \in DOMAIN pending :
        (/\ pending[i].stage = "settled"
         /\ pending[i].op \in {"getBlockNumber", "getGasPrice", "getBalance"}) =>
            LET r == pending[i]
            IN  /\ r.answer.fails => (r.threw /\ r.error = NetworkError)
                /\ (r.op = "getGasPrice" /\ ~r.answer.fails /\ r.answer.gasPriceNull)
                      => r.threw
                /\ (r.op = "getBlockNumber" /\ ~r.threw)
                      => r.ret.value = r.answer.blockNumber
                /\ (r.op = "getGasPrice" /\ ~r.threw)
                      => r.ret.value = r.answer.gasPrice
                /\ (r.op = "getBalance" /\ ~r.threw)
                      => r.ret.value = formatEther(r.answer.balance)

\* C22: swapTokens called with a protocol that is not in the registry
\* ('unsupported') returns no result: it throws, and with a signer present the
\* error is 'Protocol unsupported not supported'.
C22_UnsupportedProtocolRejected ==
    (last.op = "swapTokens" /\ last.args.protocol = "unsupported") =>
        /\ last.threw
        /\ last.ret = NoValue
        /\ HasSigner => last.error = "Protocol unsupported not supported"

(***************************************************************************)
(* Properties across the tables and across calls.                          *)
(***************************************************************************)
\* C23: the payload depends on a fixed part of the inputs only. Two swap
\* encodings that agree on tokenIn, tokenOut and amountIn are the same payload
\* whatever their amountOutMinimum, recipient, deadline and sqrtPriceLimitX96; two
\* Aerodrome encodings that agree on amountIn and amountOutMin are the same
\* whatever their routes, recipient and deadline; two stake encodings of the same
\* amount are the same for different pools.
C23_PayloadIgnoresOtherInputs ==
    /\ (/\ ref.op = "encodeSwapData" /\ cur.op = "encodeSwapData"
        /\ cur.args.tokenIn = ref.args.tokenIn
        /\ cur.args.tokenOut = ref.args.tokenOut
        /\ cur.args.amountIn = ref.args.amountIn) => cur.payload = ref.payload
    /\ (/\ ref.op = "encodeAerodromeSwap" /\ cur.op = "encodeAerodromeSwap"
        /\ cur.args.amountIn = ref.args.amountIn
        /\ cur.args.amountOutMin = ref.args.amountOutMin) => cur.payload = ref.payload
    /\ (/\ ref.op = "encodeStakeData" /\ cur.op = "encodeStakeData"
        /\ cur.args.amount = ref.args.amount) => cur.payload = ref.payload

\* C23 witness: two swap encodings with the same tokens and amount and with
\* different amountOutMinimum, recipient, deadline and sqrtPriceLimitX96 gave one
\* payload.
C23_Witness ==
    /\ ref.op = "encodeSwapData"
    /\ cur.op = "encodeSwapData"
    /\ cur.seq = 2
    /\ cur.args.tokenIn = ref.args.tokenIn
    /\ cur.args.amountIn = ref.args.amountIn
    /\ cur.args.amountOutMinimum # ref.args.amountOutMinimum
    /\ cur.args.recipient # ref.args.recipient
    /\ cur.args.deadline # ref.args.deadline
    /\ cur.args.sqrtPriceLimitX96 # ref.args.sqrtPriceLimitX96
    /\ cur.payload = ref.payload

\* The destination the integrator uses for a protocol it names.
RouterNames == {"Uniswap V3", "Aerodrome", "Compound V3"}
RouterOf(name) ==
    CASE name = "Uniswap V3" -> integ.uniswapV3Router
      [] name = "Aerodrome" -> integ.aerodromeRouter
      [] name = "Compound V3" -> integ.compoundComet

\* C24: the address tables agree: a protocol name that is in BASE_PROTOCOLS and in
\* PROTOCOLS has the same address in both, the integrator's router for a name is
\* the address every table has for that name, and so getProtocolByAddress of a
\* router the integrator uses returns the protocol of that name.
C24_AddressTablesAgree ==
    /\ \A i \in DOMAIN BASE_PROTOCOLS, j \in DOMAIN PROTOCOLS :
          BASE_PROTOCOLS[i].name = PROTOCOLS[j].name
             => SameIgnoringCase(BASE_PROTOCOLS[i].address, PROTOCOLS[j].address)
    /\ \A name \in RouterNames :
          /\ \A i \in DOMAIN BASE_PROTOCOLS :
                BASE_PROTOCOLS[i].name = name
                   => SameIgnoringCase(BASE_PROTOCOLS[i].address, RouterOf(name))
          /\ \A j \in DOMAIN PROTOCOLS :
                PROTOCOLS[j].name = name
                   => SameIgnoringCase(PROTOCOLS[j].address, RouterOf(name))
    /\ (found # NotAsked /\ query.fn = "getProtocolByAddress") =>
          \A name \in RouterNames :
             query.arg = RouterOf(name)
                => (found.ret # Null /\ found.ret.name = name)

====
